---- MODULE Spec2Model ----
(***************************************************************************)
(* Frame-aware page observation and action dispatch engine.                *)
(*                                                                         *)
(* The module models                                                       *)
(*   - DomSnapshotCache and the cached path of getA11yDOM  (SpecCache),    *)
(*   - FrameGraph, FrameContextManager, the frame-index sync pass of a     *)
(*     capture and the element resolver's session lookup   (SpecFrames),   *)
(*   - the Runtime execution-context tracking of FrameContextManager       *)
(*     together with frame attach / detach                 (SpecRuntime),  *)
(*   - waitForExecutionContext and its timer              (SpecWait),     *)
(*   - repeated and overlapping ensureInitialized() calls  (SpecInit),     *)
(*   - captureOOPIFs with its failure outcomes             (SpecOopif),    *)
(*   - one resolveElement call with its XPath recovery     (SpecResolve),  *)
(*   - one action request through runAction / performAction or             *)
(*     executeSingleAction on a page with a cached snapshot (SpecAction),  *)
(*   - captureDOMState with its retry loop, the snapshot cache and the     *)
(*     page events of runAgentTask                         (SpecCapture),  *)
(*   - PlaywrightCDPClient: the session pool, disposal, the client cache   *)
(*     and the manager registry                            (SpecPool),     *)
(*   - isEncodedId, parseEncodedId and createEncodedId  (SpecEncodedId),   *)
(*   - runAgentTask with the task control object and closeAgent            *)
(*                                                          (SpecTask),    *)
(*   - getCDPClientForPage with clientCache and pendingClients             *)
(*                                                (SpecPendingClients),    *)
(*   - DomChunkAggregator                            (SpecAggregator).     *)
(*                                                                         *)
(* The browser is the environment.  Its frame tree is a fixed potential    *)
(* tree (FrameParent) of which a subset is attached at any time; a frame   *)
(* id is never reused, and the frames of a subtree are detached children   *)
(* first, each with its own Page.frameDetached.  Page.frame* events reach  *)
(* the manager only once trackPageEvents has subscribed its handlers: a    *)
(* frame attached or detached earlier is not reported later.  Out-of-      *)
(* process frames appear in the root target's frame tree and events, as    *)
(* captureFrameTree expects, and additionally get a session of their own   *)
(* in captureOOPIFs.  Runtime.executionContextDestroyed for the contexts   *)
(* of a detached frame may be delivered before or after the frame's        *)
(* Page.frameDetached.  Frame urls are pairwise distinct, so the url       *)
(* lookup of captureOOPIFs finds at most one record.                       *)
(*                                                                         *)
(* Of a FrameRecord the fields parentFrameId, url, sessionId,              *)
(* executionContextId and backendNodeId are kept; name and loaderId are    *)
(* merged exactly like url and are not represented.  The variables         *)
(* lastEvent, formerIndices, epoch and served are history variables: they  *)
(* record what a handler or call saw and returned; no action reads them    *)
(* except to bound the run.                                                *)
(*                                                                         *)
(* A child session opened again for the same frame is the same value       *)
(* (OopifSession); liveSessions tells whether it is attached.  No frame    *)
(* matches the ad / tracking filter of captureOOPIFs, and newCDPSession    *)
(* fails for every in-process frame.  FrameContextManager.clear() has no   *)
(* caller and is not modelled.  waitForExecutionContext is called on an    *)
(* initialized manager.  resolveElement and the action requests are        *)
(* functions of what their CDP calls answer: a behaviour of SpecResolve    *)
(* or SpecAction makes one call, with the answers drawn from every         *)
(* combination, and records what the call did in resolveCall /             *)
(* actionCall.  waitForSettledDOM may reject, as its callers expect.       *)
(*                                                                         *)
(* One iteration of captureDOMState reads the cache, captures and stores   *)
(* in one step; the settle wait that follows a failed iteration is a step  *)
(* of its own, so page events fall between iterations.  A pooled session   *)
(* is identified by the number of the pool promise that creates it.        *)
(* newCDPSession fails on a closed page.  acquireSession is called on the  *)
(* client the cache holds; a creation begun earlier may still settle       *)
(* after the disposal.  An entry of the manager registry, a WeakMap, is    *)
(* kept while its client is referenced; the model keeps every client       *)
(* referenced.                                                             *)
(*                                                                         *)
(* An action request names its method: the twelve of                       *)
(* AGENT_ELEMENT_ACTIONS or one outside them; what the parameters'         *)
(* schema rejects never reaches runAction.  An encoded id is a string of   *)
(* at most MaxIdLen characters; ids are parsed with parseInt and           *)
(* formatted with the number's decimal form.  A task is followed through   *)
(* the awaits of its loop: pause, resume, cancel and closeAgent fall       *)
(* between two of them, and every awaited call may reject.  The chunks     *)
(* of a capture attempt carry distinct order numbers; any of them may      *)
(* never arrive.                                                           *)
(***************************************************************************)
EXTENDS Integers, Sequences, FiniteSets, TLC

\* ------------------------------------------------------------------ bounds
MaxIndex == 4      \* largest frameIndex the model hands out
MaxCtx == 2        \* execution context ids created per session
MaxClock == 2400   \* the cache model's clock stops here (ms)
TickMs == 600      \* granularity of the clock (ms)
MaxCaptures == 3   \* snapshots captured in the cache model
MaxInvalidations == 2  \* explicit invalidations in the cache model
MaxInFlight == 2   \* overlapping getA11yDOM calls in the cache model
MaxObserves == 2   \* captures made in the frame model
MaxWaits == 2      \* waitForExecutionContext calls made
MaxInitCalls == 3  \* ensureInitialized() calls made
MaxAcquires == 3   \* acquireSession() calls made on one client
MaxClients == 1    \* clients built for the page

\* --------------------------------------------------------------- sentinels
NoFrame == "none"          \* undefined / null frame id
NoSession == "nosession"   \* undefined session
NoUrl == "nourl"           \* undefined url
NoIndex == -1              \* undefined frame index
NoCtx == 0                 \* undefined execution context id
NoNode == 0                \* undefined backendNodeId

\* ------------------------------------------------------ the browser's page
RootFrame == "R"
ChildFrames == {"A", "B", "C"}
AllFrames == {RootFrame} \cup ChildFrames

\* the (fixed) parent of each frame in the browser's frame tree
FrameParent(f) ==
  CASE f = "A" -> RootFrame
    [] f = "B" -> "A"
    [] f = "C" -> RootFrame
    [] OTHER -> NoFrame

\* frames the browser isolates into their own process
OopifFrames == {"C"}

\* document order of the <iframe> elements (depth-first position)
DomOrder(f) ==
  CASE f = "A" -> 1
    [] f = "B" -> 2
    [] f = "C" -> 3
    [] OTHER -> 0

\* backendNodeId of the <iframe> element owning frame f (DOM.getFrameOwner)
OwnerNode(f) == DomOrder(f) + 10

FrameUrl(f) == "url" \o f

RootSession == "s0"
OopifSession(f) == "s" \o f
Sessions == {RootSession} \cup {OopifSession(f) : f \in OopifFrames}

Indices == 0..MaxIndex
CtxIds == 1..MaxCtx

VARIABLES
  \* browser (environment)
  attached,                 \* child frames currently in the page
  gone,                     \* child frames that were detached (ids are never reused)
  liveCtx,                  \* root session: ids of the execution contexts alive
  nextCtx,                  \* root session: next context id the target hands out
  \* FrameContextManager
  graph,                    \* FrameGraph: frames, children, frameIndexMap, frameIdToIndex
  sessions,                 \* frameId -> CDPSession
  frameExecutionContexts,   \* frameId -> executionContextId
  executionContextToFrame,  \* executionContextId -> frameId
  runtimeTrackedSessions,
  pageTrackedSessions,
  oopifFrameIds,
  playwrightOopifCache,
  nextFrameIndex,
  initialized,
  initPc,                   \* position of the ensureInitialized() call
  listening,                \* sessions whose Page.frame* handlers are subscribed
  \* capture (getA11yDOM)
  capturePc,                \* position of the getA11yDOM call
  captures,                 \* number of captures begun
  frameMap,                 \* frameIndex -> IframeInfo of the capture in progress
  \* element resolver
  sessionCache,             \* frameIndex -> CDPSession (module-level cache)
  formerIndices,            \* frame indices held by a frame when it was detached (history)
  \* the last event handled or call made, with its outcome (history)
  lastEvent,
  \* DomSnapshotCache and its callers
  cacheEntry,               \* DomSnapshotCache.entries.get(page)
  dirty,                    \* DomSnapshotCache.dirty.has(page)
  versions,                 \* DomSnapshotCache.versions.get(page) ?? 0
  clock,                    \* Date.now()
  inflight,                 \* captures begun by a cache miss and not yet finished
  epoch,                    \* number of explicit invalidations so far (history)
  nextSnap,                 \* id of the next snapshot captured
  served,                   \* last value returned by getA11yDOM
  \* FrameContextManager.waitForExecutionContext
  executionContextWaiters,  \* frameId -> set of waiters (by call)
  waitCalls,                \* the waitForExecutionContext calls made and their promises
  nextWait,                 \* number of the next call
  \* subscriptions and ensureInitialized() calls
  sessionListeners,         \* session -> number of handler sets subscribed (page, runtime)
  treeCaptures,             \* number of Page.getFrameTree replies enumerated (history)
  initCalls,                \* number of ensureInitialized() calls made
  \* browser (environment)
  liveSessions,             \* CDP sessions currently attached to their target
  \* element resolver
  resolveCall,              \* the last resolveElement call: what it met and what it did
  \* action requests
  actionCall,               \* the last action request: what it met and what it did
  \* captureDOMState
  domCapture,               \* the captureDOMState call in progress, or the last one
  \* PlaywrightCDPClient
  cdp,                      \* the page's client cache entry, the client's session pool and
                            \* tracked sessions, and the manager registry
  \* EncodedId
  roundTrip,                \* the last id parsed and formatted again
  \* runAgentTask
  task,                     \* the task's TaskState.status and the position of its loop
  \* getCDPClientForPage
  pendingClients,           \* the page's entries in clientCache and pendingClients, and
                            \* the getCDPClientForPage calls made
  \* DomChunkAggregator
  aggregator                \* the aggregator of one capture attempt and the chunks pushed

frameVars == <<attached, gone, graph, sessions, runtimeTrackedSessions, pageTrackedSessions,
               oopifFrameIds, playwrightOopifCache, nextFrameIndex, initialized, initPc,
               listening, capturePc, captures, frameMap, sessionCache, formerIndices>>
ctxVars == <<liveCtx, nextCtx, frameExecutionContexts, executionContextToFrame>>
cacheVars == <<cacheEntry, dirty, versions, clock, inflight, epoch, nextSnap, served>>
waitVars == <<executionContextWaiters, waitCalls, nextWait>>
initVars == <<treeCaptures, initCalls>>
\* the variables the manager record (Mgr) does not carry
unitVars == <<roundTrip, task, pendingClients, aggregator>>
callVars == <<resolveCall, actionCall, domCapture, cdp, unitVars>>
restVars == <<waitVars, initVars, liveSessions, callVars>>
extVars == <<restVars, sessionListeners>>
vars == <<frameVars, ctxVars, cacheVars, lastEvent, extVars>>

\* =========================================================== FrameGraph ====
Coalesce(new, old, undef) == IF new = undef THEN old ELSE new

\* a record argument in which every optional field is undefined
BareRecord(parent) ==
  [parentFrameId |-> parent, url |-> NoUrl, sessionId |-> NoSession,
   executionContextId |-> NoCtx, backendNodeId |-> NoNode]

EmptyGraph ==
  [frames |-> <<>>,
   children |-> [p \in AllFrames \cup {NoFrame} |-> {}],
   frameIndexMap |-> [i \in Indices |-> NoFrame],
   frameIdToIndex |-> [f \in AllFrames |-> NoIndex]]

HasFrame(g, id) == id \in DOMAIN g.frames

\* FrameGraph.updateParentRelation (the children lists hold no duplicates
\* and are only read as sets)
UpdateParentRelation(children, id, prevParent, nextParent) ==
  IF prevParent = nextParent THEN children
  ELSE LET removed == [children EXCEPT ![prevParent] = @ \ {id}]
       IN [removed EXCEPT ![nextParent] = @ \cup {id}]

\* FrameGraph.upsertFrame
GraphUpsertFrame(g, id, rec) ==
  LET existing == IF HasFrame(g, id) THEN g.frames[id] ELSE BareRecord(NoFrame)
      merged == [parentFrameId |-> rec.parentFrameId,
                 url |-> Coalesce(rec.url, existing.url, NoUrl),
                 sessionId |-> Coalesce(rec.sessionId, existing.sessionId, NoSession),
                 executionContextId |->
                   Coalesce(rec.executionContextId, existing.executionContextId, NoCtx),
                 backendNodeId |-> Coalesce(rec.backendNodeId, existing.backendNodeId, NoNode)]
  IN [g EXCEPT
        !.frames = [f \in DOMAIN g.frames \cup {id} |->
                      IF f = id THEN merged ELSE g.frames[f]],
        !.children = UpdateParentRelation(g.children, id,
                                          existing.parentFrameId, merged.parentFrameId)]

\* FrameGraph.removeFrame: the record, its index mapping, then its children
RECURSIVE GraphRemoveFrame(_, _)
RECURSIVE GraphRemoveFrames(_, _)
GraphRemoveFrame(g, id) ==
  IF ~HasFrame(g, id) THEN g
  ELSE
    LET record == g.frames[id]
        index == g.frameIdToIndex[id]
        childIds == g.children[id]
        g1 == [g EXCEPT
                 !.frames = [f \in DOMAIN g.frames \ {id} |-> g.frames[f]],
                 !.children = [[g.children EXCEPT ![record.parentFrameId] = @ \ {id}]
                                 EXCEPT ![id] = {}],
                 !.frameIndexMap = IF index # NoIndex
                                     THEN [g.frameIndexMap EXCEPT ![index] = NoFrame]
                                     ELSE g.frameIndexMap,
                 !.frameIdToIndex = [g.frameIdToIndex EXCEPT ![id] = NoIndex]]
    IN GraphRemoveFrames(g1, childIds)

GraphRemoveFrames(g, ids) ==
  IF ids = {} THEN g
  ELSE LET c == CHOOSE x \in ids : TRUE
       IN GraphRemoveFrames(GraphRemoveFrame(g, c), ids \ {c})

\* FrameGraph.assignFrameIndex
GraphAssignFrameIndex(g, id, index) ==
  [g EXCEPT !.frameIndexMap = [g.frameIndexMap EXCEPT ![index] = id],
            !.frameIdToIndex = [g.frameIdToIndex EXCEPT ![id] = index]]

\* ================================================== FrameContextManager ====
\* The manager's synchronously updated fields, as a record, so that a handler
\* is the composition of the calls it makes.
Mgr ==
  [graph |-> graph, sessions |-> sessions, nextFrameIndex |-> nextFrameIndex,
   runtimeTrackedSessions |-> runtimeTrackedSessions, oopifFrameIds |-> oopifFrameIds,
   sessionListeners |-> sessionListeners]

StoreMgr(m) ==
  /\ graph' = m.graph
  /\ sessions' = m.sessions
  /\ nextFrameIndex' = m.nextFrameIndex
  /\ runtimeTrackedSessions' = m.runtimeTrackedSessions
  /\ oopifFrameIds' = m.oopifFrameIds
  /\ sessionListeners' = m.sessionListeners

\* FrameContextManager.upsertFrame
MgrUpsertFrame(m, id, rec) == [m EXCEPT !.graph = GraphUpsertFrame(m.graph, id, rec)]

\* FrameContextManager.removeFrame
MgrRemoveFrame(m, id) ==
  [m EXCEPT !.graph = GraphRemoveFrame(m.graph, id),
            !.sessions = [m.sessions EXCEPT ![id] = NoSession]]

\* an assignFrameIndex that leaves nextFrameIndex behind
MgrAssignFrameIndexOnly(m, id, index) ==
  [m EXCEPT !.graph = GraphAssignFrameIndex(m.graph, id, index)]

\* FrameContextManager.assignFrameIndex
MgrAssignFrameIndex(m, id, index) ==
  [m EXCEPT !.graph = GraphAssignFrameIndex(m.graph, id, index),
            !.nextFrameIndex = IF index >= m.nextFrameIndex THEN index + 1
                               ELSE m.nextFrameIndex]

\* trackRuntimeForSession: a session not yet tracked gets the three Runtime
\* handlers subscribed
TrackRuntimeForSession(m, session) ==
  IF session \in m.runtimeTrackedSessions THEN m
  ELSE [m EXCEPT !.runtimeTrackedSessions = @ \cup {session},
                 !.sessionListeners[session].runtime = @ + 1]

\* FrameContextManager.setFrameSession (the session's id is its name)
MgrSetFrameSession(m, id, session) ==
  LET g == m.graph
      m1 == [m EXCEPT
               !.sessions = [m.sessions EXCEPT ![id] = session],
               !.graph = IF HasFrame(g, id)
                           THEN GraphUpsertFrame(g, id, [g.frames[id] EXCEPT !.sessionId = session])
                           ELSE g]
  IN TrackRuntimeForSession(m1, session)

\* FrameContextManager.getFrameByBackendNodeId (NoFrame when none matches)
GetFrameByBackendNodeId(g, node) ==
  LET hits == {f \in DOMAIN g.frames : g.frames[f].backendNodeId = node}
  IN IF hits = {} THEN NoFrame ELSE CHOOSE f \in hits : TRUE

\* FrameContextManager.getFrameIdByUrl (urls are pairwise distinct)
GetFrameIdByUrl(g, url) ==
  LET hits == {f \in DOMAIN g.frames : g.frames[f].url = url}
  IN IF url = NoUrl \/ hits = {} THEN NoFrame ELSE CHOOSE f \in hits : TRUE

\* ============================================================ the page ====
\* frames in document (pre-)order
RECURSIVE InDomOrder(_)
InDomOrder(S) ==
  IF S = {} THEN <<>>
  ELSE LET f == CHOOSE x \in S : \A y \in S : DomOrder(x) <= DomOrder(y)
       IN <<f>> \o InDomOrder(S \ {f})

\* 1-based position of f in sequence q (0 when absent)
PositionIn(q, f) ==
  IF \E i \in 1..Len(q) : q[i] = f THEN CHOOSE i \in 1..Len(q) : q[i] = f ELSE 0

ValidPages ==
  {S \in SUBSET ChildFrames : \A f \in S : FrameParent(f) = RootFrame \/ FrameParent(f) \in S}

\* frames whose parentFrameId chain in graph g leads to frame id (id included)
RECURSIVE GraphSubtreeFrom(_, _, _)
GraphSubtreeFrom(g, S, n) ==
  IF n = 0 THEN S
  ELSE GraphSubtreeFrom(g, S \cup {f \in DOMAIN g.frames : g.frames[f].parentFrameId \in S}, n - 1)

GraphSubtree(g, id) == GraphSubtreeFrom(g, {id}, Cardinality(AllFrames))

\* the frame indices that graph g associates with a frame of S, either way
IndicesOf(g, S) ==
  {i \in Indices : g.frameIndexMap[i] \in S \/ \E f \in S : g.frameIdToIndex[f] = i}

\* lastEvent: what was handled or called last, and what it returned
OtherEvent ==
  [type |-> "other", frame |-> NoFrame, affected |-> {}, ctx |-> NoCtx, known |-> FALSE,
   world |-> "none", before |-> <<>>,
   status |-> "none", frameIndex |-> NoIndex, session |-> NoSession,
   graphSession |-> NoSession, former |-> FALSE]

FrameInit ==
  /\ attached \in ValidPages
  /\ gone = {}
  /\ graph = EmptyGraph
  /\ sessions = [f \in AllFrames |-> NoSession]
  /\ runtimeTrackedSessions = {}
  /\ pageTrackedSessions = {}
  /\ oopifFrameIds = {}
  /\ playwrightOopifCache = {}
  /\ nextFrameIndex = 0
  /\ initialized = FALSE
  /\ initPc = "idle"
  /\ listening = {}
  /\ capturePc = "none"
  /\ captures = 0
  /\ frameMap = <<>>
  /\ sessionCache = [i \in Indices |-> NoSession]
  /\ formerIndices = {}
  /\ lastEvent = OtherEvent

CtxInit ==
  /\ liveCtx = {}
  /\ nextCtx = 1
  /\ frameExecutionContexts = [f \in AllFrames |-> NoCtx]
  /\ executionContextToFrame = [c \in CtxIds |-> NoFrame]

SubscriptionInit ==
  /\ sessionListeners = [s \in Sessions |-> [page |-> 0, runtime |-> 0]]
  /\ treeCaptures = 0
  /\ initCalls = 0
  /\ liveSessions = {RootSession}

\* ------------------------------------------------- ensureInitialized() ----
\* populateFrameOwner after DOM.getFrameOwner answered (ok) or threw (~ok)
PopulateFrameOwner(m, f, ok) ==
  IF ok /\ HasFrame(m.graph, f)
    THEN [m EXCEPT !.graph = GraphUpsertFrame(m.graph, f,
                     [m.graph.frames[f] EXCEPT !.backendNodeId = OwnerNode(f)])]
    ELSE m

\* captureFrameTree's traverse(node, parentFrameId) for one node of the
\* Page.getFrameTree reply: upsertFrame, setFrameSession, populateFrameOwner
TraverseRegister(m, f) ==
  LET m1 == MgrUpsertFrame(m, f, [BareRecord(FrameParent(f)) EXCEPT !.url = FrameUrl(f)])
      m2 == MgrSetFrameSession(m1, f, RootSession)
  IN IF m2.graph.frames[f].parentFrameId # NoFrame
       THEN PopulateFrameOwner(m2, f, TRUE)
       ELSE m2

RECURSIVE TraverseAll(_, _)
TraverseAll(m, nodes) ==
  IF nodes = <<>> THEN m
  ELSE TraverseAll(TraverseRegister(m, Head(nodes)), Tail(nodes))

\* an ensureInitialized() without the initializingPromise test
\* (sensitivity variant of EnsureInitializedOutcome)
EnsureInitializedNoPromise(isInitialized, initializing) ==
  IF isInitialized THEN "return" ELSE "run"

\* ensureInitialized(): what a call does
EnsureInitializedOutcome(isInitialized, initializing) ==
  IF isInitialized THEN "return"
  ELSE IF initializing THEN "join"
  ELSE "run"

\* ensureInitialized(): neither initialized nor initializing, so the
\* initialization starts and Page.getFrameTree is sent
EnsureInitialized ==
  /\ EnsureInitializedOutcome(initialized, initPc # "idle") = "run"
  /\ initCalls < MaxInitCalls
  /\ initCalls' = initCalls + 1
  /\ initPc' = "getTree"
  /\ lastEvent' = OtherEvent
  /\ UNCHANGED <<attached, gone, graph, sessions, runtimeTrackedSessions, pageTrackedSessions,
                 oopifFrameIds, playwrightOopifCache, nextFrameIndex, initialized, listening,
                 capturePc, captures, frameMap, sessionCache, formerIndices, ctxVars,
                 cacheVars, waitVars, treeCaptures, sessionListeners, liveSessions, callVars>>

\* ensureInitialized() called again: it returns at once (initialized) or
\* returns the pending initialization's promise
EnsureInitializedAgain ==
  /\ EnsureInitializedOutcome(initialized, initPc # "idle") # "run"
  /\ initCalls < MaxInitCalls
  /\ initCalls' = initCalls + 1
  /\ lastEvent' = [OtherEvent EXCEPT !.type = "ensureInitialized",
                     !.status = EnsureInitializedOutcome(initialized, initPc # "idle")]
  /\ UNCHANGED <<frameVars, ctxVars, cacheVars, waitVars, treeCaptures, sessionListeners, liveSessions,
                 callVars>>

\* captureFrameTree: the frames the reply lists are registered in pre-order;
\* trackPageEvents then returns at once for a tracked session, and otherwise
\* marks the session tracked and sends Page.enable
CaptureFrameTree ==
  /\ initPc = "getTree"
  /\ StoreMgr(TraverseAll(Mgr, <<RootFrame>> \o InDomOrder(attached)))
  /\ treeCaptures' = treeCaptures + 1
  /\ pageTrackedSessions' = pageTrackedSessions \cup {RootSession}
  /\ IF RootSession \in pageTrackedSessions
       THEN /\ initialized' = TRUE
            /\ initPc' = "idle"
            /\ lastEvent' = [OtherEvent EXCEPT !.type = "initialized"]
       ELSE /\ initPc' = "enable"
            /\ lastEvent' = OtherEvent
            /\ UNCHANGED initialized
  /\ UNCHANGED <<attached, gone, playwrightOopifCache, listening, capturePc,
                 captures, frameMap, sessionCache, formerIndices, ctxVars, cacheVars,
                 waitVars, initCalls, liveSessions, callVars>>

\* captureFrameTree: Page.getFrameTree is rejected, and so is the
\* initialization; a later call starts over
CaptureFrameTreeFails ==
  /\ initPc = "getTree"
  /\ initPc' = "idle"
  /\ lastEvent' = OtherEvent
  /\ UNCHANGED <<attached, gone, graph, sessions, runtimeTrackedSessions, pageTrackedSessions,
                 oopifFrameIds, playwrightOopifCache, nextFrameIndex, initialized, listening,
                 capturePc, captures, frameMap, sessionCache, formerIndices, ctxVars,
                 cacheVars, extVars>>

\* trackPageEvents after Page.enable: the three Page.frame* handlers are
\* subscribed and ensureInitialized() returns
TrackPageEvents ==
  /\ initPc = "enable"
  /\ listening' = listening \cup {RootSession}
  /\ sessionListeners' = [sessionListeners EXCEPT ![RootSession].page = @ + 1]
  /\ initialized' = TRUE
  /\ initPc' = "idle"
  /\ lastEvent' = [OtherEvent EXCEPT !.type = "initialized"]
  /\ UNCHANGED <<attached, gone, graph, sessions, runtimeTrackedSessions, pageTrackedSessions,
                 oopifFrameIds, playwrightOopifCache, nextFrameIndex, capturePc, captures,
                 frameMap, sessionCache, formerIndices, ctxVars, cacheVars, restVars>>

\* -------------------------------------------------- Page.frame* events ----
\* handlePageFrameAttached
HandlePageFrameAttached(m, f, parent) ==
  IF HasFrame(m.graph, f) THEN m
  ELSE
    LET m1 == MgrUpsertFrame(m, f, BareRecord(parent))
        index == m1.nextFrameIndex
        m2 == IF m1.graph.frameIdToIndex[f] = NoIndex
                THEN MgrAssignFrameIndex([m1 EXCEPT !.nextFrameIndex = index + 1], f, index)
                ELSE m1
        m3 == MgrSetFrameSession(m2, f, RootSession)
    IN PopulateFrameOwner(m3, f, TRUE)

\* handlePageFrameDetached
HandlePageFrameDetached(m, f) ==
  IF ~HasFrame(m.graph, f) THEN m ELSE MgrRemoveFrame(m, f)

\* handlePageFrameNavigated
HandlePageFrameNavigated(m, f, parent) ==
  MgrUpsertFrame(m, f, [BareRecord(parent) EXCEPT !.url = FrameUrl(f)])

\* A frame is attached in the page; Page.frameAttached is handled when the
\* handlers are subscribed.
FrameAttached(f) ==
  /\ f \in ChildFrames \ (attached \cup gone)
  /\ FrameParent(f) \in attached \cup {RootFrame}
  /\ attached' = attached \cup {f}
  /\ IF RootSession \in listening
       THEN /\ nextFrameIndex <= MaxIndex
            /\ StoreMgr(HandlePageFrameAttached(Mgr, f, FrameParent(f)))
            /\ lastEvent' = [OtherEvent EXCEPT !.type = "frameAttached", !.frame = f,
                                               !.known = HasFrame(graph, f)]
       ELSE /\ UNCHANGED <<graph, sessions, nextFrameIndex, runtimeTrackedSessions,
                           oopifFrameIds, sessionListeners>>
            /\ lastEvent' = OtherEvent
  /\ UNCHANGED <<gone, pageTrackedSessions, playwrightOopifCache, initialized, initPc,
                 listening, capturePc, captures, frameMap, sessionCache, formerIndices,
                 ctxVars, cacheVars, restVars>>

\* A frame without child frames leaves the page (the browser detaches the
\* frames of a subtree children first, and a session attached to the frame's
\* own target ends); Page.frameDetached is handled when the handlers are
\* subscribed.
FrameDetached(f) ==
  /\ f \in attached
  /\ ~ \E c \in attached : FrameParent(c) = f
  /\ attached' = attached \ {f}
  /\ gone' = gone \cup {f}
  /\ IF RootSession \in listening
       THEN /\ StoreMgr(HandlePageFrameDetached(Mgr, f))
            /\ lastEvent' = [OtherEvent EXCEPT !.type = "frameDetached", !.frame = f,
                                               !.known = HasFrame(graph, f),
                                               !.affected = GraphSubtree(graph, f)]
            /\ formerIndices' = formerIndices \cup IndicesOf(graph, GraphSubtree(graph, f))
       ELSE /\ UNCHANGED <<graph, sessions, nextFrameIndex, runtimeTrackedSessions,
                           oopifFrameIds, sessionListeners, formerIndices>>
            /\ lastEvent' = OtherEvent
  /\ liveSessions' = liveSessions \ {OopifSession(f)}
  /\ UNCHANGED <<pageTrackedSessions, playwrightOopifCache, initialized, initPc, listening,
                 capturePc, captures, frameMap, sessionCache, ctxVars, cacheVars, waitVars,
                 initVars, callVars>>

\* A frame of the page navigates and Page.frameNavigated is handled.
FrameNavigated(f) ==
  /\ f \in attached \cup {RootFrame}
  /\ RootSession \in listening
  /\ StoreMgr(HandlePageFrameNavigated(Mgr, f, FrameParent(f)))
  /\ lastEvent' = [OtherEvent EXCEPT !.type = "frameNavigated", !.frame = f,
                                     !.known = HasFrame(graph, f)]
  /\ UNCHANGED <<attached, gone, pageTrackedSessions, playwrightOopifCache, initialized,
                 initPc, listening, capturePc, captures, frameMap, sessionCache,
                 formerIndices, ctxVars, cacheVars, restVars>>

\* ---------------------------------------------------------- getA11yDOM ----
\* An IframeInfo of the capture's frameMap.  hasDocument: the capture reads
\* elements for this entry (a same-origin content document, or an OOPIF's own
\* document); the <iframe> element of an OOPIF has none.
IframeInfo(frameId, node, parentIndex, src, ctx, hasDocument) ==
  [frameId |-> frameId, iframeBackendNodeId |-> node, parentFrameIndex |-> parentIndex,
   src |-> src, executionContextId |-> ctx, hasDocument |-> hasDocument]

\* buildBackendIdMaps on the root session: every <iframe> element met in the
\* depth-first walk takes the next frame index
DomFrameMap(page) ==
  LET order == InDomOrder(page)
  IN [i \in 1..Len(order) |->
        IframeInfo(NoFrame, OwnerNode(order[i]), PositionIn(order, FrameParent(order[i])),
                   FrameUrl(order[i]), NoCtx, order[i] \notin OopifFrames)]

\* getA11yDOM, steps 1-3: the DOM walk of a fresh capture
CaptureDom ==
  /\ initialized
  /\ capturePc \in {"none", "idle"}
  /\ captures < MaxObserves
  /\ captures' = captures + 1
  /\ frameMap' = DomFrameMap(attached)
  /\ capturePc' = "oopifs"
  /\ lastEvent' = OtherEvent
  /\ UNCHANGED <<attached, gone, graph, sessions, runtimeTrackedSessions, pageTrackedSessions,
                 oopifFrameIds, playwrightOopifCache, nextFrameIndex, initialized, initPc,
                 listening, sessionCache, formerIndices, ctxVars, cacheVars, extVars>>

\* captureOOPIFs, the registration loop over the discovered OOPIFs
RECURSIVE RegisterOOPIFs(_, _, _)
RegisterOOPIFs(m, found, frameIndex) ==
  IF found = <<>> THEN m
  ELSE
    LET f == Head(found)
        parentFrameId == GetFrameIdByUrl(m.graph, FrameUrl(FrameParent(f)))
        m1 == MgrSetFrameSession(m, f, OopifSession(f))
        m2 == MgrAssignFrameIndex(m1, f, frameIndex)
        m3 == [m2 EXCEPT !.oopifFrameIds = @ \cup {f}]
        m4 == MgrUpsertFrame(m3, f, [BareRecord(parentFrameId) EXCEPT !.url = FrameUrl(f)])
    IN RegisterOOPIFs(m4, Tail(found), frameIndex + 1)

\* a discovery that takes every candidate frame for discovered, whether or
\* not its session opened (sensitivity variant of DiscoveredOOPIFs)
DiscoveredAllCandidates(candidates, cached, opens, answers) == candidates

\* captureOOPIFs: the frames that come out of the discovery.  cached: frames
\* with a cached record; opens: frames for which newCDPSession succeeded;
\* answers: those of them whose session answered Page.enable and
\* Page.getFrameTree
DiscoveredOOPIFs(candidates, cached, opens, answers) ==
  (candidates \cap cached) \cup (answers \cap opens \cap candidates)

\* captureOOPIFs(startIndex): cached handles of frames no longer in the page
\* are dropped; for every other non-main frame a child CDP session is
\* requested (opens: the frames for which one opens; answers: those whose
\* session then answers); the discovered frames are cached and registered in
\* discovery order
CaptureOOPIFsWith(opens, answers) ==
  /\ capturePc = "oopifs"
  /\ answers \subseteq opens
  /\ LET cached == playwrightOopifCache \cap attached
         startIndex == Cardinality(DOMAIN frameMap) + 1
         discovered == DiscoveredOOPIFs(attached, cached, opens, answers)
         found == InDomOrder(discovered)
     IN /\ opens \subseteq (attached \cap OopifFrames) \ cached
        /\ startIndex + Len(found) - 1 <= MaxIndex
        /\ StoreMgr(RegisterOOPIFs(Mgr, found, startIndex))
        /\ playwrightOopifCache' = discovered
        /\ liveSessions' = liveSessions \cup {OopifSession(f) : f \in answers}
        /\ lastEvent' = [OtherEvent EXCEPT !.type = "captureOOPIFs",
                                           !.affected = attached \ (cached \cup opens),
                                           !.before = cached \cup opens]
  /\ capturePc' = "fetch"
  /\ UNCHANGED <<attached, gone, pageTrackedSessions, initialized, initPc, listening,
                 captures, frameMap, sessionCache, formerIndices, ctxVars, cacheVars,
                 waitVars, initVars, callVars>>

\* captureOOPIFs(startIndex) when a session opens for every out-of-process
\* frame and answers
CaptureOOPIFs ==
  LET fresh == (attached \cap OopifFrames) \ playwrightOopifCache
  IN CaptureOOPIFsWith(fresh, fresh)

\* the session of an out-of-process frame ends while the frame stays in the
\* page (its target crashed or was replaced); the record's detachHandler runs
SessionDetached(f) ==
  /\ f \in attached \cap OopifFrames
  /\ OopifSession(f) \in liveSessions
  /\ liveSessions' = liveSessions \ {OopifSession(f)}
  /\ playwrightOopifCache' = playwrightOopifCache \ {f}
  /\ lastEvent' = [OtherEvent EXCEPT !.type = "sessionDetached", !.frame = f]
  /\ UNCHANGED <<attached, gone, graph, sessions, runtimeTrackedSessions, pageTrackedSessions,
                 oopifFrameIds, nextFrameIndex, initialized, initPc, listening, capturePc,
                 captures, frameMap, sessionCache, formerIndices, ctxVars, cacheVars,
                 waitVars, initVars, sessionListeners, callVars>>

\* fetchIframeAXTrees: the OOPIFs of the manager whose data can be collected
OopifInfos(g) ==
  {f \in DOMAIN g.frames \cap oopifFrameIds :
     /\ g.frameIdToIndex[f] # NoIndex
     /\ sessions[f] # NoSession
     /\ f \in attached}

OopifParentIndex(g, f) ==
  LET parent == g.frames[f].parentFrameId
  IN IF parent = NoFrame THEN 0
     ELSE IF g.frameIdToIndex[parent] = NoIndex THEN 0 ELSE g.frameIdToIndex[parent]

\* fetchIframeAXTrees: the IframeInfo of every such OOPIF is merged into the
\* frameMap under the OOPIF's frame index, unless that index is taken
FetchIframeAXTrees ==
  /\ capturePc = "fetch"
  /\ LET g == graph
         fresh == {f \in OopifInfos(g) : g.frameIdToIndex[f] \notin DOMAIN frameMap}
         slots == {g.frameIdToIndex[f] : f \in fresh}
     IN frameMap' =
          IF frameMap = <<>> THEN frameMap
          ELSE [i \in DOMAIN frameMap \cup slots |->
                  IF i \in DOMAIN frameMap THEN frameMap[i]
                  ELSE LET f == CHOOSE x \in fresh : g.frameIdToIndex[x] = i
                       IN IframeInfo(f, NoNode, OopifParentIndex(g, f), FrameUrl(f),
                                     frameExecutionContexts[f], TRUE)]
  /\ capturePc' = "sync"
  /\ lastEvent' = OtherEvent
  /\ UNCHANGED <<attached, gone, graph, sessions, runtimeTrackedSessions, pageTrackedSessions,
                 oopifFrameIds, playwrightOopifCache, nextFrameIndex, initialized, initPc,
                 listening, captures, sessionCache, formerIndices, ctxVars, cacheVars,
                 extVars>>

\* syncFrameContextManager, the callback run for each frameMap entry in
\* increasing frame-index order
RECURSIVE SyncEntries(_, _, _, _)
SyncEntries(m, fmap, frameIdByIndex, todo) ==
  IF todo = {} THEN m
  ELSE
    LET frameIndex == CHOOSE i \in todo : \A j \in todo : i <= j
        info == fmap[frameIndex]
        matched == IF info.iframeBackendNodeId # NoNode
                     THEN GetFrameByBackendNodeId(m.graph, info.iframeBackendNodeId)
                     ELSE NoFrame
        frameId == IF info.frameId # NoFrame THEN info.frameId ELSE matched
        byIndex == [frameIdByIndex EXCEPT ![frameIndex] = frameId]
        parentFrameId == IF byIndex[info.parentFrameIndex] # NoFrame
                           THEN byIndex[info.parentFrameIndex]
                           ELSE byIndex[0]
        m1 == MgrUpsertFrame(m, frameId,
                [parentFrameId |-> parentFrameId, url |-> info.src, sessionId |-> NoSession,
                 executionContextId |-> info.executionContextId,
                 backendNodeId |-> info.iframeBackendNodeId])
        m2 == MgrAssignFrameIndex(m1, frameId, frameIndex)
        m3 == IF m2.sessions[frameId] = NoSession
                THEN MgrSetFrameSession(m2, frameId, RootSession)
                ELSE m2
    IN IF frameId = NoFrame
         THEN SyncEntries(m, fmap, frameIdByIndex, todo \ {frameIndex})
         ELSE SyncEntries(m3, fmap, byIndex, todo \ {frameIndex})

\* syncFrameContextManager after its Page.getFrameTree reply
SyncFrames(m, fmap) ==
  LET m1 == MgrUpsertFrame(m, RootFrame, [BareRecord(NoFrame) EXCEPT !.url = FrameUrl(RootFrame)])
      m2 == MgrAssignFrameIndex(m1, RootFrame, 0)
      m3 == MgrSetFrameSession(m2, RootFrame, RootSession)
  IN SyncEntries(m3, fmap, [i \in Indices |-> IF i = 0 THEN RootFrame ELSE NoFrame],
                 DOMAIN fmap)

\* getA11yDOM, step 4c: the sync pass; the capture then returns its snapshot
SyncFrameContextManager ==
  /\ capturePc = "sync"
  /\ StoreMgr(SyncFrames(Mgr, frameMap))
  /\ capturePc' = "idle"
  /\ lastEvent' = [OtherEvent EXCEPT !.type = "sync"]
  /\ UNCHANGED <<attached, gone, pageTrackedSessions, playwrightOopifCache, initialized,
                 initPc, listening, captures, frameMap, sessionCache, formerIndices, ctxVars,
                 cacheVars, restVars>>

\* ----------------------------------------------------- element resolver ----
\* resolveFrameId with strict validation (NoFrame: it throws)
ResolveFrameId(g, frameIndex) == g.frameIndexMap[frameIndex]

\* resolveFrameSession: the session returned (NoSession: it throws)
ResolveFrameSession(g, sess, cache, frameIndex) ==
  LET frameId == ResolveFrameId(g, frameIndex)
  IN IF frameId = NoFrame THEN NoSession
     ELSE IF cache[frameIndex] # NoSession THEN cache[frameIndex]
     ELSE sess[frameId]

\* frame indices of the snapshot's elements
SnapshotFrameIndices ==
  {0} \cup {i \in DOMAIN frameMap : frameMap[i].hasDocument}

\* performAction -> resolveElement(encodedId) for an element of the current
\* snapshot, up to the session lookup
Resolve(frameIndex) ==
  /\ capturePc = "idle"
  /\ frameIndex \in SnapshotFrameIndices
  /\ LET frameId == ResolveFrameId(graph, frameIndex)
         session == ResolveFrameSession(graph, sessions, sessionCache, frameIndex)
     IN /\ sessionCache' = IF session # NoSession
                              THEN [sessionCache EXCEPT ![frameIndex] = session]
                              ELSE sessionCache
        /\ lastEvent' =
             [OtherEvent EXCEPT
                !.type = "resolve",
                !.status = IF session = NoSession THEN "failed" ELSE "ok",
                !.frameIndex = frameIndex, !.frame = frameId, !.session = session,
                !.graphSession = IF frameId = NoFrame THEN NoSession ELSE sessions[frameId],
                !.former = frameIndex \in formerIndices]
  /\ UNCHANGED <<attached, gone, graph, sessions, runtimeTrackedSessions, pageTrackedSessions,
                 oopifFrameIds, playwrightOopifCache, nextFrameIndex, initialized, initPc,
                 listening, capturePc, captures, frameMap, formerIndices, ctxVars, cacheVars,
                 extVars>>

FramesNext ==
  \/ EnsureInitialized
  \/ CaptureFrameTree
  \/ TrackPageEvents
  \/ \E f \in ChildFrames : FrameAttached(f)
  \/ \E f \in ChildFrames : FrameDetached(f)
  \/ \E f \in AllFrames : FrameNavigated(f)
  \/ CaptureDom
  \/ CaptureOOPIFs
  \/ FetchIframeAXTrees
  \/ SyncFrameContextManager
  \/ \E i \in Indices : Resolve(i)

\* ============================================ Runtime execution contexts ====
\* Runtime events of the root session, which trackRuntimeForSession
\* subscribes to when the first frame is routed on it.
Worlds == {"default", "isolated"}

\* ------------------------------------------- waitForExecutionContext ----
\* A call of waitForExecutionContext and its promise.  timer: the call's
\* setTimeout is pending; resolves: how often the promise's resolve function
\* was invoked (only the first invocation settles the promise).
WaitIds == 1..MaxWaits

NoCall ==
  [frame |-> NoFrame, status |-> "idle", value |-> NoCtx, timer |-> FALSE, resolves |-> 0,
   via |-> "none"]

WaitInit ==
  /\ executionContextWaiters = [f \in AllFrames |-> {}]
  /\ waitCalls = [w \in WaitIds |-> NoCall]
  /\ nextWait = 1

\* resolve(value) of a call's promise
ResolvePromise(call, value, via) ==
  IF call.status = "pending"
    THEN [call EXCEPT !.status = "done", !.value = value, !.via = via,
                      !.resolves = call.resolves + 1]
    ELSE [call EXCEPT !.resolves = call.resolves + 1]

\* a createdHandler that releases only one of the frame's waiters
\* (sensitivity variant of ReleaseWaiters)
ReleaseOneWaiter(calls, released, contextId) ==
  [w \in WaitIds |->
     IF released # {} /\ w = CHOOSE x \in released : \A y \in released : x <= y
       THEN ResolvePromise([calls[w] EXCEPT !.timer = FALSE], contextId, "event")
       ELSE calls[w]]

\* createdHandler: the waiters of the frame have their timeout cleared and
\* are resolved with the new context id
ReleaseWaiters(calls, released, contextId) ==
  [w \in WaitIds |->
     IF w \in released
       THEN ResolvePromise([calls[w] EXCEPT !.timer = FALSE], contextId, "event")
       ELSE calls[w]]

\* waitForExecutionContext(frameId): an existing id is returned at once,
\* otherwise a waiter with a timeout is queued
WaitForExecutionContext(f) ==
  /\ initialized
  /\ nextWait <= MaxWaits
  /\ nextWait' = nextWait + 1
  /\ LET existing == frameExecutionContexts[f]
         call == [NoCall EXCEPT !.frame = f, !.status = "pending"]
     IN IF existing # NoCtx
          THEN /\ waitCalls' = [waitCalls EXCEPT ![nextWait] = ResolvePromise(call, existing, "existing")]
               /\ UNCHANGED executionContextWaiters
          ELSE /\ waitCalls' = [waitCalls EXCEPT ![nextWait] = [call EXCEPT !.timer = TRUE]]
               /\ executionContextWaiters' =
                    [executionContextWaiters EXCEPT ![f] = @ \cup {nextWait}]
  /\ lastEvent' = OtherEvent
  /\ UNCHANGED <<frameVars, ctxVars, cacheVars, initVars, sessionListeners, liveSessions, callVars>>

\* the timeout of a waiter fires
WaitTimeout(w) ==
  /\ waitCalls[w].timer
  /\ executionContextWaiters' =
       [executionContextWaiters EXCEPT ![waitCalls[w].frame] = @ \ {w}]
  /\ waitCalls' = [waitCalls EXCEPT
                     ![w] = ResolvePromise([waitCalls[w] EXCEPT !.timer = FALSE], NoCtx, "timeout")]
  /\ lastEvent' = OtherEvent
  /\ UNCHANGED <<nextWait, frameVars, ctxVars, cacheVars, initVars, sessionListeners, liveSessions,
                 callVars>>

\* createdHandler: the two context maps after the event
CreatedHandlerStores(frameId, contextType) ==
  frameId # NoFrame /\ contextType = "default"

\* createdHandler: the graph after the event
CreatedHandlerGraph(g, frameId, contextId) ==
  IF HasFrame(g, frameId) /\ g.frames[frameId].executionContextId # contextId
    THEN GraphUpsertFrame(g, frameId, [g.frames[frameId] EXCEPT !.executionContextId = contextId])
    ELSE g

\* The page creates an execution context for a frame of the root target and
\* Runtime.executionContextCreated is handled.
ExecutionContextCreated(f, world) ==
  /\ RootSession \in runtimeTrackedSessions
  /\ f \in (attached \cup {RootFrame}) \ OopifFrames
  /\ nextCtx <= MaxCtx
  /\ liveCtx' = liveCtx \cup {nextCtx}
  /\ nextCtx' = nextCtx + 1
  /\ IF CreatedHandlerStores(f, world)
       THEN /\ frameExecutionContexts' = [frameExecutionContexts EXCEPT ![f] = nextCtx]
            /\ executionContextToFrame' = [executionContextToFrame EXCEPT ![nextCtx] = f]
            /\ graph' = CreatedHandlerGraph(graph, f, nextCtx)
            /\ waitCalls' = ReleaseWaiters(waitCalls, executionContextWaiters[f], nextCtx)
            /\ executionContextWaiters' = [executionContextWaiters EXCEPT ![f] = {}]
       ELSE UNCHANGED <<frameExecutionContexts, executionContextToFrame, graph,
                        executionContextWaiters, waitCalls>>
  /\ lastEvent' = [OtherEvent EXCEPT !.type = "contextCreated", !.frame = f, !.ctx = nextCtx,
                                     !.world = world, !.known = HasFrame(graph, f),
                                     !.before = frameExecutionContexts]
  /\ UNCHANGED <<attached, gone, sessions, runtimeTrackedSessions, pageTrackedSessions,
                 oopifFrameIds, playwrightOopifCache, nextFrameIndex, initialized, initPc,
                 listening, capturePc, captures, frameMap, sessionCache, formerIndices,
                 cacheVars, nextWait, initVars, sessionListeners, liveSessions, callVars>>

\* destroyedHandler: frameExecutionContexts after the event
DestroyedHandlerFrames(byFrame, byCtx, contextId) ==
  IF byCtx[contextId] = NoFrame THEN byFrame
  ELSE [byFrame EXCEPT ![byCtx[contextId]] = NoCtx]

\* destroyedHandler: executionContextToFrame after the event
DestroyedHandlerContexts(byCtx, contextId) ==
  IF byCtx[contextId] = NoFrame THEN byCtx
  ELSE [byCtx EXCEPT ![contextId] = NoFrame]

\* The page destroys one of its execution contexts and
\* Runtime.executionContextDestroyed is handled.
ExecutionContextDestroyed(c) ==
  /\ RootSession \in runtimeTrackedSessions
  /\ c \in liveCtx
  /\ liveCtx' = liveCtx \ {c}
  /\ frameExecutionContexts' =
       DestroyedHandlerFrames(frameExecutionContexts, executionContextToFrame, c)
  /\ executionContextToFrame' = DestroyedHandlerContexts(executionContextToFrame, c)
  /\ lastEvent' = [OtherEvent EXCEPT
                     !.type = "contextDestroyed", !.ctx = c,
                     !.affected = {f \in AllFrames : frameExecutionContexts[f] = c},
                     !.before = frameExecutionContexts]
  /\ UNCHANGED <<attached, gone, nextCtx, graph, sessions, runtimeTrackedSessions,
                 pageTrackedSessions, oopifFrameIds, playwrightOopifCache, nextFrameIndex,
                 initialized, initPc, listening, capturePc, captures, frameMap, sessionCache,
                 formerIndices, cacheVars, extVars>>

\* clearedHandler of a session: the frames whose entries it deletes
ClearedHandlerFrames(sess, byFrame, session) ==
  {f \in AllFrames : sess[f] = session /\ byFrame[f] # NoCtx}

\* The root target drops all its execution contexts and
\* Runtime.executionContextsCleared is handled.
ExecutionContextsCleared ==
  /\ RootSession \in runtimeTrackedSessions
  /\ liveCtx # {}
  /\ liveCtx' = {}
  /\ LET cleared == ClearedHandlerFrames(sessions, frameExecutionContexts, RootSession)
     IN /\ frameExecutionContexts' =
             [f \in AllFrames |-> IF f \in cleared THEN NoCtx ELSE frameExecutionContexts[f]]
        /\ executionContextToFrame' =
             [c \in CtxIds |-> IF \E f \in cleared : frameExecutionContexts[f] = c
                                 THEN NoFrame ELSE executionContextToFrame[c]]
  /\ lastEvent' = [OtherEvent EXCEPT
                     !.type = "contextsCleared",
                     !.affected = {f \in AllFrames : sessions[f] = RootSession},
                     !.before = frameExecutionContexts]
  /\ UNCHANGED <<attached, gone, nextCtx, graph, sessions, runtimeTrackedSessions,
                 pageTrackedSessions, oopifFrameIds, playwrightOopifCache, nextFrameIndex,
                 initialized, initPc, listening, capturePc, captures, frameMap, sessionCache,
                 formerIndices, cacheVars, extVars>>

\* (the Runtime handlers read no field a navigation writes, so navigations
\* are left to SpecFrames)
RuntimeNext ==
  \/ EnsureInitialized
  \/ CaptureFrameTree
  \/ TrackPageEvents
  \/ \E f \in ChildFrames : FrameAttached(f)
  \/ \E f \in ChildFrames : FrameDetached(f)
  \/ \E f \in AllFrames, world \in Worlds : ExecutionContextCreated(f, world)
  \/ \E c \in CtxIds : ExecutionContextDestroyed(c)
  \/ ExecutionContextsCleared

\* ensureInitialized() called any number of times, around page events and
\* captures
InitNext ==
  \/ EnsureInitialized
  \/ EnsureInitializedAgain
  \/ CaptureFrameTree
  \/ CaptureFrameTreeFails
  \/ TrackPageEvents
  \/ \E f \in ChildFrames : FrameAttached(f)
  \/ \E f \in ChildFrames : FrameDetached(f)
  \/ CaptureDom
  \/ CaptureOOPIFs
  \/ FetchIframeAXTrees
  \/ SyncFrameContextManager

\* captures whose OOPIF discovery may fail per frame, and sessions that end
OopifNext ==
  \/ EnsureInitialized
  \/ CaptureFrameTree
  \/ TrackPageEvents
  \/ \E f \in ChildFrames : FrameAttached(f)
  \/ \E f \in ChildFrames : FrameDetached(f)
  \/ CaptureDom
  \/ \E opens \in SUBSET OopifFrames, answers \in SUBSET OopifFrames :
       CaptureOOPIFsWith(opens, answers)
  \/ FetchIframeAXTrees
  \/ SyncFrameContextManager
  \/ \E f \in OopifFrames : SessionDetached(f)

\* Runtime events and waitForExecutionContext calls on an initialized manager
WaitNext ==
  \/ EnsureInitialized
  \/ CaptureFrameTree
  \/ TrackPageEvents
  \/ \E f \in AllFrames, world \in Worlds : ExecutionContextCreated(f, world)
  \/ \E c \in CtxIds : ExecutionContextDestroyed(c)
  \/ \E f \in AllFrames \ OopifFrames : WaitForExecutionContext(f)
  \/ \E w \in WaitIds : WaitTimeout(w)

\* ===================================================== DomSnapshotCache ====
MAX_CACHE_AGE_MS == 1000

NoSnap == [id |-> 0, began |-> 0]
NoEntry == [state |-> NoSnap, timestamp |-> 0, version |-> 0]
NothingServed == [snap |-> NoSnap, fromCache |-> FALSE, epoch |-> 0]

\* DomSnapshotCache.invalidate: the fields it writes
CacheInvalidate(c) ==
  [c EXCEPT !.entry = NoEntry, !.versions = c.versions + 1, !.dirty = TRUE]

\* DomSnapshotCache.set
CacheSet(c, state, now) ==
  [c EXCEPT !.versions = c.versions + 1,
            !.entry = [state |-> state, timestamp |-> now, version |-> c.versions + 1],
            !.dirty = FALSE]

\* DomSnapshotCache.get: the value returned (NoSnap for null)
CacheGetResult(c, now) ==
  IF c.dirty THEN NoSnap
  ELSE IF c.entry = NoEntry THEN NoSnap
  ELSE IF now - c.entry.timestamp > MAX_CACHE_AGE_MS THEN NoSnap
  ELSE c.entry.state

\* DomSnapshotCache.get: the cache after the call (an aged entry is invalidated)
CacheGetEffect(c, now) ==
  IF c.dirty THEN c
  ELSE IF c.entry = NoEntry THEN c
  ELSE IF now - c.entry.timestamp > MAX_CACHE_AGE_MS THEN CacheInvalidate(c)
  ELSE c

TheCache == [entry |-> cacheEntry, versions |-> versions, dirty |-> dirty]

StoreCache(c) ==
  /\ cacheEntry' = c.entry
  /\ versions' = c.versions
  /\ dirty' = c.dirty

CacheInit ==
  /\ cacheEntry = NoEntry
  /\ dirty = FALSE
  /\ versions = 0
  /\ clock = 0
  /\ inflight = {}
  /\ epoch = 0
  /\ nextSnap = 1
  /\ served = NothingServed

\* getA11yDOM(page, useCache=true) up to the start of the capture: a hit
\* returns the cached snapshot, a miss begins a capture.
ObserveCached ==
  LET hit == CacheGetResult(TheCache, clock) IN
  /\ StoreCache(CacheGetEffect(TheCache, clock))
  /\ IF hit # NoSnap
       THEN /\ served' = [snap |-> hit, fromCache |-> TRUE, epoch |-> epoch]
            /\ UNCHANGED <<inflight, nextSnap>>
       ELSE /\ nextSnap <= MaxCaptures
            /\ Cardinality(inflight) < MaxInFlight
            /\ inflight' = inflight \cup {[id |-> nextSnap, began |-> epoch]}
            /\ nextSnap' = nextSnap + 1
            /\ UNCHANGED served
  /\ UNCHANGED <<clock, epoch, frameVars, ctxVars, lastEvent, extVars>>

\* the capture of a missed read finishes: the snapshot is stored and returned
CaptureStore ==
  \E c \in inflight :
    /\ inflight' = inflight \ {c}
    /\ StoreCache(CacheSet(TheCache, c, clock))
    /\ served' = [snap |-> c, fromCache |-> FALSE, epoch |-> epoch]
    /\ UNCHANGED <<clock, epoch, nextSnap, frameVars, ctxVars, lastEvent, extVars>>

\* the capture throws: getA11yDOM returns the placeholder and stores nothing
CaptureError ==
  \E c \in inflight :
    /\ inflight' = inflight \ {c}
    /\ served' = NothingServed
    /\ UNCHANGED <<cacheEntry, dirty, versions, clock, epoch, nextSnap, frameVars, ctxVars,
                   lastEvent, extVars>>

\* markDomSnapshotDirty(page): after a mutating action, or on the page's
\* framenavigated / framedetached / load events
MarkDomSnapshotDirty ==
  /\ epoch < MaxInvalidations
  /\ StoreCache(CacheInvalidate(TheCache))
  /\ epoch' = epoch + 1
  /\ UNCHANGED <<clock, inflight, nextSnap, served, frameVars, ctxVars, lastEvent, extVars>>

Tick ==
  /\ clock + TickMs <= MaxClock
  /\ clock' = clock + TickMs
  /\ UNCHANGED <<cacheEntry, dirty, versions, inflight, epoch, nextSnap, served, frameVars,
                 ctxVars, lastEvent, extVars>>

CacheNext == ObserveCached \/ CaptureStore \/ CaptureError \/ MarkDomSnapshotDirty \/ Tick

\* ============================================ resolveElement, one call ====
\* What one resolveElement call meets.  frameIndex: parsed from the encodedId;
\* frameInfoKnown: ctx.frameMap has the frame; infoCtx: that entry carries an
\* executionContextId; cached: resolvedElementsCache holds the element with
\* the same backendNodeId; tracked: getFrameIdByIndex answers; sessionKnown:
\* the session cache or getFrameSession answers; hasBackendId / hasXPath:
\* backendNodeMap / xpathMap have the encodedId; managerCtx:
\* getExecutionContextId answers; waitCtx: waitForExecutionContext resolves
\* with a context id (FALSE: it times out); strict: strictFrameValidation;
\* resolve1, resolve2: the first and the second DOM.resolveNode; evaluate,
\* describe: Runtime.evaluate and DOM.describeNode.  The page does not change
\* during the call: every recovery attempt of a call meets the same answers.
NodeOutcomes == {"ok", "missing", "other"}
EvaluateOutcomes == {"node", "null", "error"}

ResolveInputs ==
  { inp \in [frameIndex : {0, 1}, frameInfoKnown : BOOLEAN, infoCtx : BOOLEAN,
             cached : BOOLEAN, tracked : BOOLEAN, sessionKnown : BOOLEAN,
             hasBackendId : BOOLEAN, hasXPath : BOOLEAN, managerCtx : BOOLEAN,
             waitCtx : BOOLEAN, strict : BOOLEAN,
             resolve1 : NodeOutcomes, resolve2 : NodeOutcomes,
             evaluate : EvaluateOutcomes, describe : BOOLEAN] :
      \* frameInfo is undefined for frameIndex 0
      /\ inp.frameIndex = 0 => ~inp.frameInfoKnown
      /\ inp.infoCtx => inp.frameInfoKnown
      \* a cached element carries the backendNodeId of the map
      /\ inp.cached => inp.hasBackendId }

NoError == "none"

\* an isMissingNodeError that holds of every DOM.resolveNode error
IsAnyNodeError(error) == error # "ok"

\* isMissingNodeError: "Could not find node with given id" or "No node with
\* given id"
IsMissingNodeError(error) == error = "missing"

\* a validation that lets every call through
ContextNeverMissing(frameIndex, executionContextId, strict) == FALSE

\* "Validate execution context for iframe elements": the recovery throws
\* (strict); executionContextId: a context id was found
ContextMissing(frameIndex, executionContextId, strict) ==
  frameIndex # 0 /\ ~executionContextId /\ strict

\* recoverBackendNodeId.  error: what it throws (NoError: it returns a backend
\* node id); waits: waitForExecutionContext calls; evaluations:
\* Runtime.evaluate calls; contextId: the evaluation was given a context id
RecoverBackendNodeId(inp) ==
  LET known == inp.managerCtx \/ inp.infoCtx
      waits == IF known THEN 0 ELSE 1
      executionContextId == known \/ inp.waitCtx
      Thrown(error, evaluations) ==
        [error |-> error, waits |-> waits, evaluations |-> evaluations,
         contextId |-> executionContextId]
  IN  IF ~inp.hasXPath
        THEN [error |-> "xpath-not-found", waits |-> 0, evaluations |-> 0,
              contextId |-> FALSE]
      ELSE IF ContextMissing(inp.frameIndex, executionContextId, inp.strict)
        THEN Thrown("context-missing", 0)
      ELSE IF inp.evaluate = "error" THEN Thrown("evaluate-failed", 1)
      ELSE IF inp.evaluate = "null" THEN Thrown("node-not-recovered", 1)
      ELSE IF ~inp.describe THEN Thrown("describe-failed", 1)
      ELSE Thrown(NoError, 1)

\* an assignment that leaves the map as it was
KeepBackendNodeMap(map, backendNodeId) == map

\* ctx.backendNodeMap[encodedId] = backendNodeId.  The map of the model has
\* the entry of the element resolved (e) and one other entry; backend node
\* ids: 0 none, 1 the id of the snapshot, 1 + k the id that the k-th
\* successful recovery described, 9 the id of the other element
SetBackendNodeId(map, backendNodeId) == [map EXCEPT !.e = backendNodeId]

\* resolveElement.  result: "ok" or the error thrown; recoveries:
\* recoverBackendNodeId calls; resolveNodes: DOM.resolveNode calls; waits,
\* evaluations: summed over the recoveries; noContext: an XPath was evaluated
\* without a context id; recovered: recoveries that returned a backend node
\* id; backendNodeMap: ctx.backendNodeMap after the call; backendNodeId: that
\* of the element returned (0: none); lastResolved: the id given to the last
\* DOM.resolveNode (0: none)
ResolveElement(inp) ==
  LET rec == RecoverBackendNodeId(inp)
      before == [e |-> IF inp.hasBackendId THEN 1 ELSE 0, other |-> 9]
      Outcome(result, recoveries, resolveNodes, recovered) ==
        LET current == IF recovered > 0 THEN 1 + recovered ELSE before.e
            \* line 306 in each successful recovery, line 100 on success
            map == IF recovered > 0 \/ (result = "ok" /\ resolveNodes > 0)
                     THEN SetBackendNodeId(before, current) ELSE before
        IN [result |-> result, recoveries |-> recoveries, resolveNodes |-> resolveNodes,
            waits |-> recoveries * rec.waits,
            evaluations |-> recoveries * rec.evaluations,
            noContext |-> recoveries * rec.evaluations > 0 /\ ~rec.contextId,
            recovered |-> recovered,
            backendNodeMap |-> map,
            backendNodeId |-> IF result = "ok" THEN map.e ELSE 0,
            lastResolved |-> IF resolveNodes > 0 THEN current ELSE 0]
      first == IF inp.hasBackendId THEN 0 ELSE 1
  IN  IF inp.frameIndex # 0 /\ ~inp.frameInfoKnown
        THEN Outcome("frame-metadata-missing", 0, 0, 0)
      ELSE IF inp.cached THEN Outcome("ok", 0, 0, 0)
      ELSE IF ~inp.tracked /\ inp.strict THEN Outcome("frame-not-tracked", 0, 0, 0)
      ELSE IF ~inp.sessionKnown THEN Outcome("session-not-registered", 0, 0, 0)
      ELSE IF ~inp.hasBackendId /\ rec.error # NoError THEN Outcome(rec.error, 1, 0, 0)
      ELSE IF inp.resolve1 = "ok" THEN Outcome("ok", first, 1, first)
      ELSE IF ~IsMissingNodeError(inp.resolve1) THEN Outcome(inp.resolve1, first, 1, first)
      ELSE IF rec.error # NoError THEN Outcome(rec.error, first + 1, 1, first)
      ELSE Outcome(inp.resolve2, first + 1, 2, first + 1)

NoResolveCall == [status |-> "idle"]

ResolveInit == resolveCall = NoResolveCall /\ actionCall = NoResolveCall

\* the resolveElement call of a behaviour, from its entry to its return or
\* throw
ResolveElementCall(inp) ==
  /\ resolveCall' = [status |-> "done", inp |-> inp, out |-> ResolveElement(inp)]
  /\ UNCHANGED <<frameVars, ctxVars, cacheVars, lastEvent, waitVars, initVars,
                 liveSessions, sessionListeners, actionCall, domCapture, cdp,
                 unitVars>>

ResolveNext ==
  /\ resolveCall.status = "idle"
  /\ \E inp \in ResolveInputs : ResolveElementCall(inp)

\* ====================================================== action requests ====
\* a performAction that leaves frame validation lax
LaxFrameValidation == FALSE

\* performAction passes strictFrameValidation: true
StrictFrameValidation == TRUE

\* The elements an action request can name: what resolveElement meets, with
\* the fresh resolved-element cache performAction creates.
ActionElements == { inp \in ResolveInputs : inp.strict /\ ~inp.cached }

\* of an element the Playwright path consults the xpath and the frame entry
PlaywrightElements ==
  { inp \in ActionElements :
      /\ inp.tracked /\ inp.sessionKnown /\ inp.hasBackendId /\ inp.managerCtx
      /\ inp.waitCtx /\ ~inp.infoCtx /\ inp.describe
      /\ inp.resolve1 = "ok" /\ inp.resolve2 = "ok" /\ inp.evaluate = "node" }

\* the closed set of action methods
AGENT_ELEMENT_ACTIONS ==
  {"click", "fill", "type", "press", "selectOptionFromDropdown", "check", "uncheck",
   "hover", "scrollToElement", "scrollToPercentage", "nextChunk", "prevChunk"}

\* method names a model may answer with that are not in the closed set
ForeignMethods == {"dblclick", "evaluate"}

\* a schema that lets every method name through
AnyMethod(method) == TRUE

\* z.enum(AGENT_ELEMENT_ACTIONS): the parse succeeds
methodSchema(method) == method \in AGENT_ELEMENT_ACTIONS

\* examineDom: whether the element-finding answer comes back parsed, its
\* method checked against the closed set by the result schema
ExamineDom(method) == methodSchema(method)

\* What a request meets in performAction.  request: "malformed" (isEncodedId
\* fails), "absent" (not in domState.elements), "cdp" or "playwright"
\* (shouldUseCDP); dispatch: dispatchCDPAction / executePlaywrightMethod
\* returns (FALSE: it throws); method: the method the request names.
\* performAction hands the method on unread, so every situation is met with
\* "click" and the other methods with the elements of the main frame that
\* both paths can act on.
ActionRequests ==
  { [request |-> r, element |-> e, dispatch |-> TRUE, method |-> "click"] :
      r \in {"malformed", "absent"},
      e \in {inp \in PlaywrightElements : inp.frameIndex = 0 /\ inp.hasXPath} }
  \cup { [request |-> "cdp", element |-> e, dispatch |-> d, method |-> "click"] :
           e \in ActionElements, d \in BOOLEAN }
  \cup { [request |-> "playwright", element |-> e, dispatch |-> d, method |-> "click"] :
           e \in PlaywrightElements, d \in BOOLEAN }
  \cup { [request |-> r, element |-> e, dispatch |-> TRUE, method |-> m] :
           r \in {"cdp", "playwright"},
           e \in {inp \in PlaywrightElements : inp.frameIndex = 0 /\ inp.hasXPath},
           m \in (AGENT_ELEMENT_ACTIONS \ {"click"}) \cup ForeignMethods }

\* What the caller of performAction meets.  known: the action type is
\* registered; runtimeContext: initializeRuntimeContext returns (FALSE: it
\* throws); settle: waitForSettledDOM after the action
SettleOutcomes == {"quiet", "timeout", "error"}

ActionEnvs ==
  { [known |-> FALSE, runtimeContext |-> TRUE, settle |-> "quiet"],
    [known |-> TRUE, runtimeContext |-> FALSE, settle |-> "quiet"] }
  \cup { [known |-> TRUE, runtimeContext |-> TRUE, settle |-> w] : w \in SettleOutcomes }

\* performAction.  success: the ActionOutput's success; resolutions:
\* resolveElement calls; recoveries: recoverBackendNodeId calls; dispatches:
\* dispatchCDPAction / executePlaywrightMethod calls
PerformAction(req) ==
  LET Output(success, resolutions, recoveries, dispatches) ==
        [success |-> success, resolutions |-> resolutions,
         recoveries |-> recoveries, dispatches |-> dispatches]
      elem == [req.element EXCEPT !.strict = StrictFrameValidation]
      resolved == ResolveElement(elem)
  IN  IF req.request = "malformed" THEN Output(FALSE, 0, 0, 0)
      ELSE IF req.request = "absent" THEN Output(FALSE, 0, 0, 0)
      ELSE IF req.request = "cdp"
        THEN IF resolved.result # "ok"
               THEN Output(FALSE, 1, resolved.recoveries, 0)
               ELSE Output(req.dispatch, 1, resolved.recoveries, 1)
      \* getElementLocator, then executePlaywrightMethod
      ELSE IF ~elem.hasXPath THEN Output(FALSE, 0, 0, 0)
      ELSE IF elem.frameIndex # 0 /\ ~elem.frameInfoKnown THEN Output(FALSE, 0, 0, 0)
      ELSE Output(req.dispatch, 0, 0, 1)

\* runAction: returned (FALSE: it throws) and the ActionOutput
RunAction(req, env) ==
  LET Thrown == [returned |-> FALSE, performs |-> 0,
                 output |-> [success |-> FALSE, resolutions |-> 0, recoveries |-> 0,
                             dispatches |-> 0]]
  IN  IF req.request # "playwright" /\ ~env.runtimeContext THEN Thrown
      ELSE IF ~env.known THEN Thrown
      ELSE [returned |-> TRUE, performs |-> 1, output |-> PerformAction(req)]

\* a step of runAgentTask with an actElement action: the structured output
\* parsed against the action's schema (no parse: the step throws), then
\* runAction and the cache invalidation that follows it (the settle wait
\* comes after both)
RunAgentStep(req, env) ==
  LET ran == IF methodSchema(req.method) THEN RunAction(req, env)
             ELSE [returned |-> FALSE, performs |-> 0,
                   output |-> [success |-> FALSE, resolutions |-> 0, recoveries |-> 0,
                               dispatches |-> 0]]
  IN
  /\ actionCall' = [status |-> "done", caller |-> "runAgentTask", req |-> req, env |-> env,
                    returned |-> ran.returned, performs |-> ran.performs,
                    output |-> ran.output]
  /\ IF ran.returned
       THEN StoreCache(CacheInvalidate(TheCache))
       ELSE UNCHANGED <<cacheEntry, dirty, versions>>
  /\ UNCHANGED <<clock, inflight, epoch, nextSnap, served, frameVars, ctxVars, lastEvent,
                 waitVars, initVars, liveSessions, sessionListeners, resolveCall,
                 domCapture, cdp,
                 unitVars>>

\* executeSingleAction from the element search on: returned (FALSE: it
\* throws), the ActionOutput of performAction, and whether
\* markDomSnapshotDirty was reached
ExecuteSingleActionOutcome(req, env) ==
  LET Thrown(performs, output, marked) ==
        [returned |-> FALSE, performs |-> performs, output |-> output, marked |-> marked]
      none == [success |-> FALSE, resolutions |-> 0, recoveries |-> 0, dispatches |-> 0]
      output == PerformAction(req)
  IN  IF ~ExamineDom(req.method) THEN Thrown(0, none, FALSE)
      ELSE IF req.request = "malformed" THEN Thrown(0, none, FALSE)
      ELSE IF ~env.runtimeContext THEN Thrown(0, none, FALSE)
      ELSE IF ~output.success THEN Thrown(1, output, FALSE)
      ELSE IF env.settle = "error" THEN Thrown(1, output, FALSE)
      ELSE [returned |-> TRUE, performs |-> 1, output |-> output, marked |-> TRUE]

ExecuteSingleAction(req, env) ==
  LET ran == ExecuteSingleActionOutcome(req, env) IN
  /\ actionCall' = [status |-> "done", caller |-> "executeSingleAction", req |-> req,
                    env |-> env, returned |-> ran.returned, performs |-> ran.performs,
                    output |-> ran.output]
  /\ IF ran.marked
       THEN StoreCache(CacheInvalidate(TheCache))
       ELSE UNCHANGED <<cacheEntry, dirty, versions>>
  /\ UNCHANGED <<clock, inflight, epoch, nextSnap, served, frameVars, ctxVars, lastEvent,
                 waitVars, initVars, liveSessions, sessionListeners, resolveCall,
                 domCapture, cdp,
                 unitVars>>

\* the observation whose snapshot the caller acts on
ObserveBeforeAction == actionCall.status = "idle" /\ (ObserveCached \/ CaptureStore)

\* an action is requested once the caller holds a snapshot
ActionRequested ==
  /\ actionCall.status = "idle"
  /\ cacheEntry # NoEntry
  /\ inflight = {}
  /\ \E req \in ActionRequests, env \in ActionEnvs :
       RunAgentStep(req, env) \/ ExecuteSingleAction(req, env)

ActionNext == ObserveBeforeAction \/ ActionRequested

\* ====================================================== captureDOMState ====
DOM_CAPTURE_MAX_ATTEMPTS == 3

\* how the capture pass inside getA11yDOM ends
PassOutcomes == {"ok", "context-destroyed", "target-closed", "other"}

\* the empty state getA11yDOM falls back to
PlaceholderSnapshot == [id |-> 0 - 1, began |-> 0]

\* isRecoverableDomError, of an error thrown to captureDOMState
IsRecoverableDomError(error) == error \in {"context-destroyed", "target-closed"}

\* a test that takes every snapshot for a real one
NeverPlaceholder(snapshot) == FALSE

IsPlaceholderSnapshot(snapshot) == snapshot = PlaceholderSnapshot

\* a loop test that lets one more iteration through
MoreAttemptsInclusive(attempt, maxRetries) == attempt <= maxRetries

\* the loop test of captureDOMState
MoreAttempts(attempt, maxRetries) == attempt < maxRetries

NoCapture ==
  [status |-> "idle", useCache |-> FALSE, maxRetries |-> 0, attempt |-> 0,
   failures |-> <<>>, settles |-> 0, snap |-> NoSnap]

\* getA11yDOM: a cached snapshot, the snapshot of a capture pass that went
\* through (store: it is put in the cache when the cache is in use), or the
\* placeholder when the pass threw anything; it throws nothing itself.
\* hit: what the cache returned (NoSnap: nothing, or the cache is not in
\* use); fresh: the snapshot a successful pass builds
GetA11yDOM(pass, hit, fresh) ==
  IF hit # NoSnap THEN [thrown |-> "none", snap |-> hit, store |-> FALSE]
  ELSE IF pass = "ok" THEN [thrown |-> "none", snap |-> fresh, store |-> TRUE]
  ELSE [thrown |-> "none", snap |-> PlaceholderSnapshot, store |-> FALSE]

\* captureDOMState is called
CaptureDOMState(useCache, maxRetries) ==
  /\ domCapture.status \in {"idle", "returned", "thrown"}
  /\ nextSnap <= MaxCaptures
  /\ domCapture' = [NoCapture EXCEPT !.status = "attempt", !.useCache = useCache,
                                     !.maxRetries = maxRetries]
  /\ UNCHANGED <<frameVars, ctxVars, cacheVars, lastEvent, waitVars, initVars,
                 liveSessions, sessionListeners, resolveCall, actionCall, cdp,
                 unitVars>>

\* one iteration of the loop up to the settle wait: getA11yDOM and what
\* captureDOMState makes of its result
CaptureAttempt(pass) ==
  /\ domCapture.status = "attempt"
  /\ LET hit == IF domCapture.useCache THEN CacheGetResult(TheCache, clock) ELSE NoSnap
         looked == IF domCapture.useCache THEN CacheGetEffect(TheCache, clock) ELSE TheCache
         fresh == [id |-> nextSnap, began |-> epoch]
         got == GetA11yDOM(pass, hit, fresh)
     IN /\ StoreCache(IF got.store /\ domCapture.useCache
                        THEN CacheSet(looked, got.snap, clock) ELSE looked)
        /\ nextSnap' = IF got.store THEN nextSnap + 1 ELSE nextSnap
        /\ domCapture' =
             IF got.thrown = "none" /\ ~IsPlaceholderSnapshot(got.snap)
               THEN [domCapture EXCEPT !.status = "returned", !.snap = got.snap]
             ELSE IF got.thrown = "none" \/ IsRecoverableDomError(got.thrown)
               THEN [domCapture EXCEPT !.status = "settle",
                                       !.failures = Append(@, pass)]
             ELSE [domCapture EXCEPT !.status = "thrown",
                                     !.failures = Append(@, pass)]
  /\ UNCHANGED <<clock, inflight, epoch, served, frameVars, ctxVars, lastEvent, waitVars,
                 initVars, liveSessions, sessionListeners, resolveCall, actionCall, cdp,
                 unitVars>>

\* waitForSettledDOM(page).catch(() => {}) at the end of a failed iteration,
\* and the loop test that follows
SettleAfterAttempt ==
  /\ domCapture.status = "settle"
  /\ domCapture' =
       [domCapture EXCEPT
          !.status = IF MoreAttempts(domCapture.attempt + 1, domCapture.maxRetries)
                       THEN "attempt" ELSE "thrown",
          !.attempt = @ + 1,
          !.settles = @ + 1]
  /\ UNCHANGED <<frameVars, ctxVars, cacheVars, lastEvent, waitVars, initVars,
                 liveSessions, sessionListeners, resolveCall, actionCall, cdp,
                 unitVars>>

\* an event of the page while runAgentTask runs on it: framenavigated,
\* framedetached and load have the navigationDirtyHandler, frameattached has
\* no listener
PageEvent(kind) ==
  /\ IF kind \in {"framenavigated", "framedetached", "load"}
       THEN /\ epoch < MaxInvalidations
            /\ StoreCache(CacheInvalidate(TheCache))
            /\ epoch' = epoch + 1
       ELSE UNCHANGED <<cacheEntry, dirty, versions, epoch>>
  /\ lastEvent' = [OtherEvent EXCEPT !.type = kind]
  /\ UNCHANGED <<clock, inflight, nextSnap, served, frameVars, ctxVars, extVars>>

CaptureNext ==
  \/ \E useCache \in BOOLEAN, maxRetries \in {2, DOM_CAPTURE_MAX_ATTEMPTS} :
       CaptureDOMState(useCache, maxRetries)
  \/ \E pass \in PassOutcomes : CaptureAttempt(pass)
  \/ SettleAfterAttempt
  \/ \E kind \in {"frameattached", "framenavigated", "framedetached", "load"} :
       PageEvent(kind)
  \/ Tick

\* ==================================================== PlaywrightCDPClient ====
\* Sessions are numbered: 0 is the root session of init(), p > 0 the session
\* created for pool promise p.  In pool and cleanup 0 stands for no entry.

\* no client built yet; also the fields of a client before init()
NoClient ==
  [client |-> 0, clients |-> 0, managers |-> {}, pageClosed |-> FALSE,
   disposing |-> "no", detaching |-> {}, attempted |-> {}, disposeError |-> FALSE,
   pool |-> [k \in {"dom", "lifecycle"} |-> 0],
   cleanup |-> [k \in {"dom", "lifecycle"} |-> 0],
   promises |-> <<>>, tracked |-> {}, listening |-> {}, detached |-> {},
   calls |-> <<>>]

\* a pool lookup that never finds anything
NoPooledPromise(c, kind) == 0

\* this.sessionPool.get(kind)
PooledPromise(c, kind) == c.pool[kind]

\* a cleanup that leaves the pool entry in place
CleanupKeepsPool(c, kind, s) ==
  [c EXCEPT !.listening = @ \ {s}, !.cleanup[kind] = 0]

\* the cleanup closure of createPooledSession for session s of the kind
Cleanup(c, kind, s) ==
  [c EXCEPT !.listening = @ \ {s}, !.cleanup[kind] = 0, !.pool[kind] = 0]

\* detaches done one after the other, given up at the first failure
DetachUntilFailure(tracked, failing) ==
  [attempted |-> IF failing = {} THEN tracked ELSE failing, error |-> failing # {}]

\* the detaches of dispose(): adapter.detach() of every tracked session in
\* parallel; a failing raw detach is caught inside the adapter
DetachAll(tracked, failing) == [attempted |-> tracked, error |-> FALSE]

\* getCDPClientForPage with nothing cached for the page, followed by
\* getOrCreateFrameContextManager(client) as its callers do: a new client
\* with its root session, and a manager registered for it
GetCDPClientForPage ==
  /\ cdp.client = 0
  /\ ~cdp.pageClosed
  /\ cdp.disposing \in {"no", "done"}
  /\ cdp.clients < MaxClients
  /\ cdp' = [NoClient EXCEPT !.client = cdp.clients + 1,
                             !.clients = cdp.clients + 1,
                             !.managers = cdp.managers \cup {cdp.clients + 1},
                             !.tracked = {0}]
  /\ UNCHANGED <<frameVars, ctxVars, cacheVars, lastEvent, waitVars, initVars,
                 liveSessions, sessionListeners, resolveCall, actionCall, domCapture,
                 unitVars>>

\* acquireSession(kind) up to its await; the call is recorded with the
\* sessions that had detached before it (after) and whether it found the
\* creation of the pooled session still under way (joined)
AcquireSession(kind) ==
  /\ cdp.client # 0
  /\ cdp.disposing = "no"
  /\ Len(cdp.calls) < MaxAcquires
  /\ LET pooled == PooledPromise(cdp, kind)
         p == IF pooled = 0 THEN Len(cdp.promises) + 1 ELSE pooled
     IN cdp' = [cdp EXCEPT
                  !.promises = IF pooled = 0
                                 THEN Append(@, [kind |-> kind, state |-> "pending"])
                                 ELSE @,
                  !.pool[kind] = p,
                  !.calls = Append(@, [kind |-> kind, promise |-> p, result |-> 0,
                                       joined |-> pooled # 0 /\ cdp.promises[p].state # "resolved",
                                       after |-> cdp.detached])]
  /\ UNCHANGED <<frameVars, ctxVars, cacheVars, lastEvent, waitVars, initVars,
                 liveSessions, sessionListeners, resolveCall, actionCall, domCapture,
                 unitVars>>

\* createPooledSession after its createSession settled: on success the
\* session is tracked, the Detached listener and the cleanup are registered,
\* and initializeSessionForKind begins (it has awaits for lifecycle only)
CreateSessionSettled(p, ok) ==
  /\ p \in 1..Len(cdp.promises)
  /\ cdp.promises[p].state = "pending"
  /\ cdp.pageClosed => ~ok
  /\ LET kind == cdp.promises[p].kind
     IN cdp' = IF ok
                 THEN [cdp EXCEPT
                         !.tracked = @ \cup {p},
                         !.listening = @ \cup {p},
                         !.cleanup[kind] = p,
                         !.promises[p].state =
                            IF kind = "lifecycle" THEN "initializing" ELSE "resolved"]
                 ELSE [cdp EXCEPT !.promises[p].state = "rejected"]
  /\ UNCHANGED <<frameVars, ctxVars, cacheVars, lastEvent, waitVars, initVars,
                 liveSessions, sessionListeners, resolveCall, actionCall, domCapture,
                 unitVars>>

\* initializeSessionForKind returns (its send errors are swallowed)
SessionInitialized(p) ==
  /\ p \in 1..Len(cdp.promises)
  /\ cdp.promises[p].state = "initializing"
  /\ cdp' = [cdp EXCEPT !.promises[p].state = "resolved"]
  /\ UNCHANGED <<frameVars, ctxVars, cacheVars, lastEvent, waitVars, initVars,
                 liveSessions, sessionListeners, resolveCall, actionCall, domCapture,
                 unitVars>>

\* acquireSession after its await: the session is returned, or
\* invalidatePooledSession(kind, pooled) runs and the error is rethrown
\* (result -1)
AcquireReturn(i) ==
  /\ i \in 1..Len(cdp.calls)
  /\ cdp.calls[i].result = 0
  /\ LET call == cdp.calls[i]
         kind == call.kind
         state == cdp.promises[call.promise].state
         cleaned == IF cdp.cleanup[kind] # 0
                      THEN Cleanup(cdp, kind, cdp.cleanup[kind]) ELSE cdp
         invalidated == IF cdp.pool[kind] # 0 /\ cdp.pool[kind] # call.promise
                          THEN cdp
                          ELSE [cleaned EXCEPT !.cleanup[kind] = 0, !.pool[kind] = 0]
     IN /\ state \in {"resolved", "rejected"}
        /\ cdp' = IF state = "resolved"
                    THEN [cdp EXCEPT !.calls[i].result = call.promise]
                    ELSE [invalidated EXCEPT !.calls[i].result = 0 - 1]
  /\ UNCHANGED <<frameVars, ctxVars, cacheVars, lastEvent, waitVars, initVars,
                 liveSessions, sessionListeners, resolveCall, actionCall, domCapture,
                 unitVars>>

\* the Detached event of a pooled session: onDetached when it still listens
PooledSessionDetached(s) ==
  /\ s \in cdp.tracked \ ({0} \cup cdp.detached \cup cdp.detaching)
  /\ cdp' = [(IF s \in cdp.listening THEN Cleanup(cdp, cdp.promises[s].kind, s) ELSE cdp)
               EXCEPT !.detached = @ \cup {s}]
  /\ UNCHANGED <<frameVars, ctxVars, cacheVars, lastEvent, waitVars, initVars,
                 liveSessions, sessionListeners, resolveCall, actionCall, domCapture,
                 unitVars>>

\* disposeCDPClientForPage up to the await in dispose(): the cache entry is
\* deleted, every cleanup runs, the pool is cleared and the detaches begin.
\* pageClosed: it runs on the page's close event, else it is called on an
\* open page
DisposeCDPClientForPage(pageClosed) ==
  /\ cdp.client # 0
  /\ cdp.disposing = "no"
  /\ cdp' = [cdp EXCEPT
               !.client = 0,
               !.pageClosed = pageClosed,
               !.listening = @ \ {cdp.cleanup[k] : k \in {"dom", "lifecycle"}},
               !.cleanup = [k \in {"dom", "lifecycle"} |-> 0],
               !.pool = [k \in {"dom", "lifecycle"} |-> 0],
               !.detaching = cdp.tracked,
               !.disposing = "detaching"]
  /\ UNCHANGED <<frameVars, ctxVars, cacheVars, lastEvent, waitVars, initVars,
                 liveSessions, sessionListeners, resolveCall, actionCall, domCapture,
                 unitVars>>

\* the detaches of dispose() settle (failing: the sessions whose raw detach
\* throws), trackedSessions is cleared and disposeCDPClientForPage returns
DetachesSettled(failing) ==
  /\ cdp.disposing = "detaching"
  /\ failing \subseteq cdp.detaching
  /\ LET done == DetachAll(cdp.detaching, failing)
     IN cdp' = [cdp EXCEPT
                  !.attempted = done.attempted,
                  !.detached = @ \cup (done.attempted \ failing),
                  !.tracked = IF done.error THEN @ \ done.attempted ELSE {},
                  !.disposeError = done.error,
                  !.disposing = "done"]
  /\ UNCHANGED <<frameVars, ctxVars, cacheVars, lastEvent, waitVars, initVars,
                 liveSessions, sessionListeners, resolveCall, actionCall, domCapture,
                 unitVars>>

PoolNext ==
  \/ GetCDPClientForPage
  \/ \E kind \in {"dom", "lifecycle"} : AcquireSession(kind)
  \/ \E p \in 1..MaxAcquires, ok \in BOOLEAN : CreateSessionSettled(p, ok)
  \/ \E p \in 1..MaxAcquires : SessionInitialized(p)
  \/ \E i \in 1..MaxAcquires : AcquireReturn(i)
  \/ \E s \in 1..MaxAcquires : PooledSessionDetached(s)
  \/ \E pageClosed \in BOOLEAN : DisposeCDPClientForPage(pageClosed)
  \/ \E failing \in SUBSET (0..MaxAcquires) : DetachesSettled(failing)

\* the variables of the page, its manager, its caches and its client
pageVars == <<frameVars, ctxVars, cacheVars, lastEvent, waitVars, initVars, liveSessions,
              sessionListeners, resolveCall, actionCall, domCapture, cdp>>

\* ============================================================ EncodedId ====
MaxIdLen == 4

\* the characters of the ids tried: three digits and the separator
IdChars == {"0", "1", "7", "-"}

\* the strings a caller can hand in as an id
IdStrings == UNION { [1..n -> IdChars] : n \in 1..MaxIdLen }

DecimalDigits == <<"0", "1", "2", "3", "4", "5", "6", "7", "8", "9">>

\* ID_PATTERN.test(id): digits, one "-", digits
IsEncodedId(id) ==
  \E k \in 2..(Len(id) - 1) :
    /\ id[k] = "-"
    /\ \A i \in (1..Len(id)) \ {k} : id[i] # "-"

\* parseInt(str, 10) of a string of digits
RECURSIVE ParseInt(_)
ParseInt(str) ==
  IF Len(str) = 0 THEN 0
  ELSE 10 * ParseInt(SubSeq(str, 1, Len(str) - 1))
       + ((CHOOSE d \in 1..10 : DecimalDigits[d] = str[Len(str)]) - 1)

\* `${n}` of a non-negative integer
RECURSIVE NumberToString(_)
NumberToString(n) ==
  IF n < 10 THEN <<DecimalDigits[n + 1]>>
  ELSE NumberToString(n \div 10) \o <<DecimalDigits[(n % 10) + 1]>>

\* parseEncodedId: split("-") and parseInt of the first two parts
ParseEncodedId(encodedId) ==
  LET dash == CHOOSE k \in 1..Len(encodedId) :
                /\ encodedId[k] = "-"
                /\ \A i \in 1..(k - 1) : encodedId[i] # "-"
  IN  [frameIndex |-> ParseInt(SubSeq(encodedId, 1, dash - 1)),
       backendNodeId |-> ParseInt(SubSeq(encodedId, dash + 1, Len(encodedId)))]

\* createEncodedId
CreateEncodedId(frameIndex, backendNodeId) ==
  NumberToString(frameIndex) \o <<"-">> \o NumberToString(backendNodeId)

NoRoundTrip == [status |-> "idle"]

\* an id is checked with isEncodedId and, when accepted, parsed and
\* formatted again
ParseAndFormat(id) ==
  /\ roundTrip' =
       IF IsEncodedId(id)
         THEN [status |-> "done", id |-> id, accepted |-> TRUE,
               parsed |-> ParseEncodedId(id),
               formatted |-> CreateEncodedId(ParseEncodedId(id).frameIndex,
                                             ParseEncodedId(id).backendNodeId)]
         ELSE [status |-> "done", id |-> id, accepted |-> FALSE,
               parsed |-> [frameIndex |-> 0, backendNodeId |-> 0], formatted |-> <<>>]
  /\ UNCHANGED <<pageVars, task, pendingClients, aggregator>>

EncodedIdNext ==
  /\ roundTrip.status = "idle"
  /\ \E id \in IdStrings : ParseAndFormat(id)

\* ========================================================= runAgentTask ====
\* params.maxSteps of the task
MaxSteps == 5

MAX_CONSECUTIVE_FAILURES_OR_WAITS == 5

endTaskStatuses == {"cancelled", "completed", "failed"}

\* what the structured-output call of a step ends with: an element action,
\* a wait action, the complete action, or no parsed output after three
\* attempts (it throws)
AgentOutputs == {"act", "wait", "complete", "throw"}

\* TaskState as executeTaskAsync creates it.  pc: where runAgentTask stands,
\* the await it is suspended at ("settle": waitForSettledDOM before the
\* capture; "capture": captureDOMState; "llm": the structured-output call;
\* "action": runAction; "settled": waitForSettledDOM after the action);
\* kind: the action of the step
NoTask ==
  [status |-> "pending", pc |-> "created", currStep |-> 0, failures |-> 0,
   kind |-> "none"]

\* an error leaves runAgentTask: the catch of executeTaskAsync / executeTask
TaskThrows(t) == [t EXCEPT !.status = "failed", !.pc = "done"]

\* runAgentTask up to its first await (called by executeTaskAsync before the
\* task control is handed out)
RunAgentTask ==
  /\ task.pc = "created"
  /\ task' = [task EXCEPT !.status = "running", !.pc = "init"]
  /\ UNCHANGED <<pageVars, roundTrip, pendingClients, aggregator>>

\* initializeRuntimeContext at the start of the task returns or throws
TaskContextInitialized(ok) ==
  /\ task.pc = "init"
  /\ task' = IF ok THEN [task EXCEPT !.pc = "top"] ELSE TaskThrows(task)
  /\ UNCHANGED <<pageVars, roundTrip, pendingClients, aggregator>>

\* the status checks at the top of the loop, up to the settle wait before
\* the capture
LoopTop ==
  /\ task.pc = "top"
  /\ task' =
       IF task.status = "paused" THEN [task EXCEPT !.pc = "sleep"]
       ELSE IF task.status \in endTaskStatuses THEN [task EXCEPT !.pc = "done"]
       ELSE IF task.currStep >= MaxSteps
         THEN [task EXCEPT !.status = "cancelled", !.pc = "done"]
       ELSE [task EXCEPT !.pc = "settle"]
  /\ UNCHANGED <<pageVars, roundTrip, pendingClients, aggregator>>

\* sleep(100) of a paused task ends
SleepEnds ==
  /\ task.pc = "sleep"
  /\ task' = [task EXCEPT !.pc = "top"]
  /\ UNCHANGED <<pageVars, roundTrip, pendingClients, aggregator>>

\* waitForSettledDOM before the capture returns and captureDOMState is
\* called, or it throws
SettledBeforeCapture(ok) ==
  /\ task.pc = "settle"
  /\ task' = IF ok THEN [task EXCEPT !.pc = "capture"]
             ELSE [task EXCEPT !.status = "failed", !.pc = "done"]
  /\ UNCHANGED <<pageVars, roundTrip, pendingClients, aggregator>>

\* captureDOMState returns and the structured-output call is made, or it
\* throws
CaptureReturns(ok) ==
  /\ task.pc = "capture"
  /\ task' = IF ok THEN [task EXCEPT !.pc = "llm"]
             ELSE [task EXCEPT !.status = "failed", !.pc = "done"]
  /\ UNCHANGED <<pageVars, roundTrip, pendingClients, aggregator>>

\* the structured-output call ends; the status checks after it, and
\* runAction is called
AgentOutputReturns(out) ==
  /\ task.pc = "llm"
  /\ task' =
       IF out = "throw" THEN TaskThrows(task)
       ELSE IF task.status = "paused" THEN [task EXCEPT !.pc = "sleep"]
       ELSE IF task.status \in endTaskStatuses THEN [task EXCEPT !.pc = "done"]
       ELSE [task EXCEPT !.pc = "action", !.kind = out,
                         !.status = IF out = "complete" THEN "completed" ELSE @]
  /\ UNCHANGED <<pageVars, roundTrip, pendingClients, aggregator>>

\* runAction returns its ActionOutput; the count of consecutive failures or
\* waits, and the settle wait after the action begins
ActionReturns(success) ==
  /\ task.pc = "action"
  /\ LET stuck == task.kind = "wait" \/ ~success
         failures == IF stuck THEN task.failures + 1 ELSE 0
     IN task' =
          IF stuck /\ failures >= MAX_CONSECUTIVE_FAILURES_OR_WAITS
            THEN [task EXCEPT !.failures = failures, !.status = "failed", !.pc = "done"]
            ELSE [task EXCEPT !.failures = failures, !.pc = "settled"]
  /\ UNCHANGED <<pageVars, roundTrip, pendingClients, aggregator>>

\* waitForSettledDOM after the action returns and the step is recorded, or
\* it throws
SettledAfterAction(ok) ==
  /\ task.pc = "settled"
  /\ task' = IF ok THEN [task EXCEPT !.pc = "top", !.currStep = @ + 1, !.kind = "none"]
             ELSE TaskThrows(task)
  /\ UNCHANGED <<pageVars, roundTrip, pendingClients, aggregator>>

\* the task control: pause, resume, cancel
TaskControl(op) ==
  /\ task.pc # "created"
  /\ task' =
       IF op = "pause" /\ task.status = "running" THEN [task EXCEPT !.status = "paused"]
       ELSE IF op = "resume" /\ task.status = "paused"
         THEN [task EXCEPT !.status = "running"]
       ELSE IF op = "cancel" /\ task.status # "completed"
         THEN [task EXCEPT !.status = "cancelled"]
       ELSE task
  /\ UNCHANGED <<pageVars, roundTrip, pendingClients, aggregator>>

\* closeAgent: the loop over the tasks
CloseAgent ==
  /\ task.pc # "created"
  /\ task' = IF task.status \notin endTaskStatuses
               THEN [task EXCEPT !.status = "cancelled"] ELSE task
  /\ UNCHANGED <<pageVars, roundTrip, pendingClients, aggregator>>

TaskNext ==
  \/ RunAgentTask
  \/ \E ok \in BOOLEAN : TaskContextInitialized(ok)
  \/ LoopTop
  \/ SleepEnds
  \/ \E ok \in BOOLEAN : SettledBeforeCapture(ok)
  \/ \E ok \in BOOLEAN : CaptureReturns(ok)
  \/ \E out \in AgentOutputs : AgentOutputReturns(out)
  \/ \E success \in BOOLEAN : ActionReturns(success)
  \/ \E ok \in BOOLEAN : SettledAfterAction(ok)
  \/ \E op \in {"pause", "resume", "cancel"} : TaskControl(op)
  \/ CloseAgent

\* ================================================== getCDPClientForPage ====
MaxInits == 3
MaxRequests == 3

\* nothing cached and nothing pending for the page.  cached: clientCache has
\* the page; pending: the page's pendingClients entry ("none": no entry,
\* else the state of its promise); running: a client.init() is in flight;
\* inits: initializations begun; calls: what each getCDPClientForPage call
\* returned ("existing": the cached client, "started": the promise of a new
\* initialization, "joined": the promise of the one in flight,
\* "earlier-failure": a promise that had already rejected)
NoPendingClients ==
  [cached |-> FALSE, pending |-> "none", running |-> FALSE, inits |-> 0, calls |-> <<>>]

\* getCDPClientForPage up to the return of its promise
PendingClientRequested ==
  /\ Len(pendingClients.calls) < MaxRequests
  /\ IF pendingClients.cached
       THEN pendingClients' = [pendingClients EXCEPT !.calls = Append(@, "existing")]
       ELSE IF pendingClients.pending # "none"
         THEN pendingClients' =
                [pendingClients EXCEPT
                   !.calls = Append(@, IF pendingClients.pending = "rejected"
                                         THEN "earlier-failure" ELSE "joined")]
         ELSE /\ ~pendingClients.running
              /\ pendingClients.inits < MaxInits
              /\ pendingClients' =
                   [pendingClients EXCEPT !.pending = "pending", !.running = TRUE,
                                          !.inits = @ + 1, !.calls = Append(@, "started")]
  /\ UNCHANGED <<pageVars, roundTrip, task, aggregator>>

\* client.init() of the initialization in flight settles: the client is
\* cached and the pending entry deleted, or the promise rejects
PendingClientSettled(ok) ==
  /\ pendingClients.running
  /\ pendingClients' =
       IF ok THEN [pendingClients EXCEPT !.running = FALSE, !.cached = TRUE,
                                         !.pending = "none"]
       ELSE [pendingClients EXCEPT
               !.running = FALSE,
               !.pending = IF @ = "pending" THEN "rejected" ELSE @]
  /\ UNCHANGED <<pageVars, roundTrip, task, aggregator>>

\* disposeCDPClientForPage, or disposeAllCDPClients: the page's entries of
\* both maps are deleted
PendingClientsDisposed ==
  /\ pendingClients.cached \/ pendingClients.pending # "none"
  /\ pendingClients' = [pendingClients EXCEPT !.cached = FALSE, !.pending = "none"]
  /\ UNCHANGED <<pageVars, roundTrip, task, aggregator>>

PendingClientsNext ==
  \/ PendingClientRequested
  \/ \E ok \in BOOLEAN : PendingClientSettled(ok)
  \/ PendingClientsDisposed

\* =================================================== DomChunkAggregator ====
MaxChunks == 4

\* FrameChunkEvent.simplified of the chunks streamed: texts with and without
\* surrounding white space, and one that is white space only
ChunkTexts == {<<"a">>, <<" ", "b">>, <<"c", "\n">>, <<" ">>}

\* String.prototype.trim: the text without its leading and trailing white space
Trim(text) ==
  LET WhiteSpace == {" ", "\n", "\t"}
      inked == {i \in 1..Len(text) : text[i] \notin WhiteSpace}
  IN IF inked = {} THEN <<>>
     ELSE SubSeq(text, CHOOSE i \in inked : \A j \in inked : i <= j,
                       CHOOSE i \in inked : \A j \in inked : j <= i)

\* a new aggregator.  parts, pending (the chunks of the map, each under its
\* order) and nextOrder are its fields; emitted holds the order number of
\* each part and pushed the chunks in the order they arrived (history)
NoAggregator ==
  [parts |-> <<>>, pending |-> {}, nextOrder |-> 0, emitted |-> <<>>, pushed |-> <<>>]

\* flush() with its loop left at the first pending chunk, whatever its number
FlushAnyPending(agg) ==
  [agg EXCEPT
     !.pending = {},
     !.parts = @ \o [i \in 1..Cardinality(agg.pending) |->
                       Trim((CHOOSE c \in agg.pending :
                               Cardinality({d \in agg.pending : d.order < c.order}) = i - 1
                            ).simplified)],
     !.emitted = @ \o [i \in 1..Cardinality(agg.pending) |->
                         (CHOOSE c \in agg.pending :
                            Cardinality({d \in agg.pending : d.order < c.order}) = i - 1
                         ).order],
     !.nextOrder = @ + Cardinality(agg.pending)]

\* flush(): while the chunk numbered nextOrder is pending it is taken out,
\* its trimmed text appended to parts, and nextOrder advanced
RECURSIVE Flush(_)
Flush(agg) ==
  IF \E c \in agg.pending : c.order = agg.nextOrder
    THEN LET chunk == CHOOSE c \in agg.pending : c.order = agg.nextOrder
         IN Flush([agg EXCEPT !.pending = @ \ {chunk},
                              !.parts = Append(@, Trim(chunk.simplified)),
                              !.emitted = Append(@, chunk.order),
                              !.nextOrder = @ + 1])
    ELSE agg

\* toString(): the parts joined, an empty line between two of them
RECURSIVE JoinParts(_)
JoinParts(parts) ==
  IF parts = <<>> THEN <<>>
  ELSE IF Len(parts) = 1 THEN parts[1]
  ELSE parts[1] \o <<"\n", "\n">> \o JoinParts(Tail(parts))

\* push(chunk) by the onFrameChunk callback of the attempt: a frame's chunk
\* arrives when its tree is built, in any order among the frames; a frame
\* whose tree is never built sends none
Push(order, simplified) ==
  /\ \A i \in 1..Len(aggregator.pushed) : aggregator.pushed[i].order # order
  /\ LET chunk == [order |-> order, simplified |-> simplified]
     IN aggregator' =
          Flush([aggregator EXCEPT
                   !.pending = {c \in @ : c.order # order} \cup {chunk},
                   !.pushed = Append(@, chunk)])
  /\ UNCHANGED <<pageVars, roundTrip, task, pendingClients>>

AggregatorNext ==
  \E order \in 0..(MaxChunks - 1), simplified \in ChunkTexts : Push(order, simplified)

\* ======================================================= specifications ====
Init ==
  /\ FrameInit /\ CtxInit /\ CacheInit /\ WaitInit /\ SubscriptionInit /\ ResolveInit
  /\ domCapture = NoCapture
  /\ cdp = NoClient
  /\ roundTrip = NoRoundTrip
  /\ task = NoTask
  /\ pendingClients = NoPendingClients
  /\ aggregator = NoAggregator

\* frames, frame indices, captures and the element resolver
SpecFrames == Init /\ [][FramesNext]_vars

\* frames and the Runtime events of the root session
SpecRuntime == Init /\ [][RuntimeNext]_vars

\* single resolveElement calls over everything a call can meet
SpecResolve == Init /\ [][ResolveNext]_vars

\* single action requests on a page whose snapshot is cached
ActionModelInit == Init /\ attached = {"A"}
SpecAction == ActionModelInit /\ [][ActionNext]_vars

\* captureDOMState calls on a page with its snapshot cache and page events;
\* an iteration that began ends, and a settle wait returns
SpecCapture ==
  /\ ActionModelInit /\ [][CaptureNext]_vars
  /\ WF_vars(\E pass \in PassOutcomes : CaptureAttempt(pass))
  /\ WF_vars(SettleAfterAttempt)

\* the page's client: its session pool, its disposal and the registries
SpecPool == ActionModelInit /\ [][PoolNext]_vars

\* single ids checked, parsed and formatted again
SpecEncodedId == Init /\ [][EncodedIdNext]_vars

\* one task: its loop, its control object and closeAgent
SpecTask == Init /\ [][TaskNext]_vars

\* the page's client registry: requests, initializations and disposals
SpecPendingClients == Init /\ [][PendingClientsNext]_vars

\* the chunks of one capture attempt arriving in every order, some never
SpecAggregator == Init /\ [][AggregatorNext]_vars

\* OOPIF discovery with its failure outcomes
SpecOopif == Init /\ [][OopifNext]_vars

\* repeated and overlapping ensureInitialized() calls
SpecInit == Init /\ [][InitNext]_vars

\* waitForExecutionContext on a page with one iframe, called by a capture or
\* a resolve (both run ensureInitialized first); a timer that was set and not
\* cleared fires
WaitModelInit == Init /\ attached = {"A"}

SpecWait == WaitModelInit /\ [][WaitNext]_vars /\ \A w \in WaitIds : WF_vars(WaitTimeout(w))

\* the snapshot cache of one page (the page's frames play no part)
CacheModelInit == Init /\ attached = {}

SpecCache == CacheModelInit /\ [][CacheNext]_vars

\* =============================================================== claims ====
\* C1: a cached read (observe with useCache=true served from the cache) never
\* returns a snapshot whose capture began before the most recent invalidation
\* of the page, also when the invalidation arrived while that capture was in
\* flight and the capture then stored its result.
C1_CachedReadIsFresh ==
  served.fromCache => served.snap.began >= served.epoch

\* C2: no two distinct frames hold the same frameIndex, and the two index maps
\* agree: index i resolves to frame F exactly when F reports index i, so that
\* after assignFrameIndex(F, i) no other frame still reports i and no other
\* index still resolves to F.
C2_FrameIndexAuthoritative ==
  /\ \A f \in AllFrames, h \in AllFrames :
       (f # h /\ graph.frameIdToIndex[f] # NoIndex)
         => graph.frameIdToIndex[f] # graph.frameIdToIndex[h]
  /\ \A f \in AllFrames, i \in Indices :
       (graph.frameIndexMap[i] = f) <=> (graph.frameIdToIndex[f] = i)

\* C3: a successful resolve returns the session the Frame Graph associates, at
\* the time of the call, with the frame holding the id's frameIndex.
C3_ResolveUsesGraphSession ==
  (lastEvent.type = "resolve" /\ lastEvent.status = "ok")
    => lastEvent.session = lastEvent.graphSession

\* C4: after Page.frameDetached for F has been handled, neither F nor any
\* descendant of F has a record or a frameIndex mapping in the Frame Graph.
C4_DetachRemovesSubtree ==
  lastEvent.type = "frameDetached"
    => \A g \in lastEvent.affected :
         /\ ~HasFrame(graph, g)
         /\ graph.frameIdToIndex[g] = NoIndex
         /\ \A i \in Indices : graph.frameIndexMap[i] # g

\* C5: after Page.frameDetached for F has been handled, the manager stores no
\* execution context id and no session entry for F or any descendant of F.
C5_DetachReleasesContexts ==
  lastEvent.type = "frameDetached"
    => \A g \in lastEvent.affected :
         /\ sessions[g] = NoSession
         /\ frameExecutionContexts[g] = NoCtx
         /\ \A c \in CtxIds : executionContextToFrame[c] # g

\* C6: once Page.frameDetached for F has been handled, resolving an id that
\* carries F's former frameIndex either fails or uses the Frame Graph's
\* current binding for that index, never one cached while F was attached.
C6_NoStaleResolutionAfterDetach ==
  (lastEvent.type = "resolve" /\ lastEvent.former)
    => \/ lastEvent.status = "failed"
       \/ lastEvent.session = lastEvent.graphSession

\* C7: after ensureInitialized() has returned the root frame has frameIndex 0
\* and frameIndex 0 resolves to the root frame; a frame registered by a
\* Page.frameAttached event is never given index 0.
C7_RootHasIndexZero ==
  /\ initialized
       => /\ HasFrame(graph, RootFrame)
          /\ graph.frameIdToIndex[RootFrame] = 0
          /\ graph.frameIndexMap[0] = RootFrame
  /\ (lastEvent.type = "frameAttached" /\ ~lastEvent.known)
       => graph.frameIdToIndex[lastEvent.frame] # 0

\* the frames met when following parentFrameId links from frame f, n steps far
RECURSIVE Ancestors(_, _, _)
Ancestors(g, f, n) ==
  IF n = 0 \/ ~HasFrame(g, f) \/ g.frames[f].parentFrameId = NoFrame THEN {}
  ELSE {g.frames[f].parentFrameId} \cup Ancestors(g, g.frames[f].parentFrameId, n - 1)

\* C8: every record's parentFrameId is null or the frameId of a record in the
\* graph, and following parentFrameId links never revisits a frame.
C8_ParentsPresentAndAcyclic ==
  \A f \in DOMAIN graph.frames :
    /\ graph.frames[f].parentFrameId = NoFrame \/ HasFrame(graph, graph.frames[f].parentFrameId)
    /\ f \notin Ancestors(graph, f, Cardinality(AllFrames))

\* C9: after Runtime.executionContextDestroyed for the stored context c of
\* frame F, or Runtime.executionContextsCleared on the session routing F, no
\* execution context id is stored for F: the manager's map has no entry for F
\* and F's record no longer carries the id.
C9_DestroyedInvalidatesStoredId ==
  lastEvent.type \in {"contextDestroyed", "contextsCleared"}
    => \A f \in lastEvent.affected :
         /\ frameExecutionContexts[f] = NoCtx
         /\ (HasFrame(graph, f) /\ lastEvent.before[f] # NoCtx)
              => graph.frames[f].executionContextId # lastEvent.before[f]

\* C10: Runtime.executionContextCreated stores a frameId -> executionContextId
\* entry only when it names a frame that has a record in the Frame Graph and
\* its type is default; otherwise every stored context id is unchanged.
C10_CreatedStoresOnlyForKnownDefault ==
  (lastEvent.type = "contextCreated" /\ ~(lastEvent.known /\ lastEvent.world = "default"))
    => frameExecutionContexts = lastEvent.before

\* C11: every waitForExecutionContext call resolves exactly once and never
\* hangs: with the context id when a default context of the frame is already
\* registered or is registered before the timeout (the one event releasing
\* every waiter pending on the frame), and with no value once its timeout
\* has fired otherwise.
C11_WaitResolvesExactlyOnce ==
  /\ [](\A w \in WaitIds :
         LET c == waitCalls[w] IN
         /\ c.resolves <= 1
         /\ (c.status = "done") <=> (c.resolves = 1)
         /\ c.status = "pending" =>
               /\ c.timer
               /\ w \in executionContextWaiters[c.frame]
               /\ frameExecutionContexts[c.frame] = NoCtx
         /\ c.status = "done" =>
               /\ ~c.timer
               /\ w \notin executionContextWaiters[c.frame]
               /\ (c.via = "timeout") <=> (c.value = NoCtx))
  /\ \A w \in WaitIds : (waitCalls[w].status = "pending") ~> (waitCalls[w].status = "done")

\* two calls pending on one frame were released by the same event
C11_Witness ==
  \E w1, w2 \in WaitIds :
    /\ w1 # w2
    /\ waitCalls[w1].frame = waitCalls[w2].frame
    /\ waitCalls[w1].via = "event" /\ waitCalls[w2].via = "event"
    /\ waitCalls[w1].value = waitCalls[w2].value /\ waitCalls[w1].value # NoCtx

\* C12: ensureInitialized() is idempotent under sequential and overlapping
\* calls: the frame tree is enumerated at most once, the Page and the Runtime
\* handlers are subscribed at most once per session, and once the manager is
\* initialized no call starts an initialization again (so a later call
\* changes nothing).
C12_EnsureInitializedIdempotent ==
  /\ treeCaptures <= 1
  /\ \A s \in Sessions : sessionListeners[s].page <= 1 /\ sessionListeners[s].runtime <= 1
  /\ initialized => (initPc = "idle" /\ treeCaptures = 1)
  /\ lastEvent.type = "ensureInitialized" =>
        lastEvent.status = IF initialized THEN "return" ELSE "join"

\* a third call returned at once on an initialized manager that has also
\* subscribed an out-of-process frame's session
C12_Witness ==
  /\ lastEvent.type = "ensureInitialized"
  /\ lastEvent.status = "return"
  /\ initCalls = MaxInitCalls
  /\ \E f \in OopifFrames : sessionListeners[OopifSession(f)].runtime = 1

\* C13: when captureOOPIFs returns, every non-main frame reported by the
\* driver for which a dedicated child session could be opened (now or, for a
\* cached frame, earlier) has a Frame Graph record, is marked as an OOPIF and
\* is routed to its own child session, not the root session.
C13_OpenedFramesAreRegistered ==
  lastEvent.type = "captureOOPIFs" =>
    \A f \in lastEvent.before :
      /\ HasFrame(graph, f)
      /\ f \in oopifFrameIds
      /\ sessions[f] = OopifSession(f)

\* C14: a candidate frame whose child session fails to open is treated as
\* same-origin by captureOOPIFs: the call does not mark it as an OOPIF, gives
\* it no session and no frameIndex, leaves its record as it was, and still
\* registers the other candidates that were discovered.
C14_FailedOpenLeavesFrameUntouched ==
  [][\A opens \in SUBSET OopifFrames, answers \in SUBSET OopifFrames :
       CaptureOOPIFsWith(opens, answers) =>
         LET cached == playwrightOopifCache \cap attached IN
         /\ \A f \in attached \ (cached \cup opens) :
              /\ (f \in oopifFrameIds') <=> (f \in oopifFrameIds)
              /\ sessions'[f] = sessions[f]
              /\ graph'.frameIdToIndex[f] = graph.frameIdToIndex[f]
              /\ HasFrame(graph', f) <=> HasFrame(graph, f)
              /\ HasFrame(graph, f) => graph'.frames[f] = graph.frames[f]
         /\ \A f \in cached \cup answers :
              /\ HasFrame(graph', f)
              /\ f \in oopifFrameIds'
              /\ sessions'[f] = OopifSession(f)]_vars

\* captureOOPIFs has returned after the session of one candidate failed to
\* open (a same-origin frame with a record) and another candidate was
\* registered as an OOPIF
C14_Witness ==
  /\ lastEvent.type = "captureOOPIFs"
  /\ \E f \in lastEvent.affected : HasFrame(graph, f) /\ f \notin oopifFrameIds
  /\ \E f \in lastEvent.before : f \in oopifFrameIds /\ sessions[f] = OopifSession(f)

\* C15: the session recorded for a frame is live: once a frame's CDP session
\* has detached, neither getFrameSession nor the frame's record returns it.
C15_RecordedSessionIsLive ==
  \A f \in AllFrames :
    /\ sessions[f] # NoSession => sessions[f] \in liveSessions
    /\ (HasFrame(graph, f) /\ graph.frames[f].sessionId # NoSession)
         => graph.frames[f].sessionId \in liveSessions

\* C16 (as stated): within one resolve call for an element that has an entry
\* in backendNodeMap, a missing-node failure of DOM.resolveNode triggers
\* exactly one XPath-recovery attempt and exactly one DOM.resolveNode retry, a
\* second failure is returned without further recovery, and a DOM.resolveNode
\* error of any other class triggers no recovery at all.
C16_MissingNodeOneRecoveryOneRetry ==
  (/\ resolveCall.status = "done"
   /\ resolveCall.inp.hasBackendId
   /\ resolveCall.out.resolveNodes >= 1)
  => LET inp == resolveCall.inp
         out == resolveCall.out
     IN  /\ inp.resolve1 = "missing"
              => /\ out.recoveries = 1
                 /\ out.resolveNodes = 2
                 /\ inp.resolve2 # "ok" => out.result = inp.resolve2
         /\ inp.resolve1 = "other"
              => out.recoveries = 0 /\ out.resolveNodes = 1 /\ out.result = "other"

\* C16 (amended): within one resolve call for an element that has an entry in
\* backendNodeMap, a missing-node failure of DOM.resolveNode triggers exactly
\* one XPath-recovery attempt; when the attempt yields a backend node id there
\* is exactly one DOM.resolveNode retry, whose failure is returned without
\* further recovery, and when the attempt itself fails its error is returned
\* without any retry; a DOM.resolveNode error of any other class triggers no
\* recovery at all.
C16_OneRecoveryThenAtMostOneRetry ==
  (/\ resolveCall.status = "done"
   /\ resolveCall.inp.hasBackendId
   /\ resolveCall.out.resolveNodes >= 1)
  => LET inp == resolveCall.inp
         out == resolveCall.out
         rec == RecoverBackendNodeId(inp)
     IN  /\ (inp.resolve1 = "missing" /\ rec.error = NoError)
              => /\ out.recoveries = 1
                 /\ out.resolveNodes = 2
                 /\ out.result = inp.resolve2
         /\ (inp.resolve1 = "missing" /\ rec.error # NoError)
              => /\ out.recoveries = 1
                 /\ out.resolveNodes = 1
                 /\ out.result = rec.error
         /\ inp.resolve1 = "other"
              => out.recoveries = 0 /\ out.resolveNodes = 1 /\ out.result = "other"
         /\ inp.resolve1 = "ok"
              => out.recoveries = 0 /\ out.resolveNodes = 1 /\ out.result = "ok"

\* a known element whose node is gone, recovered through its XPath, and whose
\* second DOM.resolveNode fails as well
C16_Witness ==
  /\ resolveCall.status = "done"
  /\ resolveCall.inp.hasBackendId
  /\ resolveCall.inp.resolve1 = "missing"
  /\ resolveCall.inp.resolve2 = "missing"
  /\ resolveCall.out.recoveries = 1
  /\ resolveCall.out.resolveNodes = 2
  /\ resolveCall.out.result = "missing"

\* C17 (as stated): if XPath recovery is needed for an element of frame F and no execution
\* context for F is registered by the end of the waitForExecutionContext wait,
\* resolve fails with a frame-not-ready error and no XPath is evaluated, for
\* an element in any frame.  Stated for the calls performAction makes (strict
\* frame validation) on a snapshot that carries no context id for F either.
C17_NoContextIsFrameNotReady ==
  (/\ resolveCall.status = "done"
   /\ resolveCall.inp.strict
   /\ resolveCall.out.recoveries >= 1
   /\ resolveCall.inp.hasXPath
   /\ ~resolveCall.inp.managerCtx
   /\ ~resolveCall.inp.infoCtx
   /\ ~resolveCall.inp.waitCtx)
  => /\ resolveCall.out.waits >= 1
     /\ resolveCall.out.result = "context-missing"
     /\ resolveCall.out.evaluations = 0

\* C17 (amended): if XPath recovery under strict frame validation is needed
\* for an element of an iframe F (frameIndex other than 0), neither the
\* snapshot nor the manager holds an execution context for F and none is
\* registered by the end of the waitForExecutionContext wait, resolve fails
\* with the execution-context-missing error and no XPath is evaluated; for an
\* element of the main frame the wait is made as well, and after it timed out
\* the XPath is evaluated without a context id.
C17_IframeWithoutContextIsRejected ==
  (/\ resolveCall.status = "done"
   /\ resolveCall.inp.strict
   /\ resolveCall.out.recoveries >= 1
   /\ resolveCall.inp.hasXPath
   /\ ~resolveCall.inp.managerCtx
   /\ ~resolveCall.inp.infoCtx
   /\ ~resolveCall.inp.waitCtx)
  => /\ resolveCall.out.waits >= 1
     /\ resolveCall.inp.frameIndex # 0
          => /\ resolveCall.out.result = "context-missing"
             /\ resolveCall.out.evaluations = 0
     /\ resolveCall.inp.frameIndex = 0
          => /\ resolveCall.out.result # "context-missing"
             /\ resolveCall.out.evaluations >= 1
             /\ resolveCall.out.noContext

\* a known iframe element whose node is gone and whose frame gets no context
\* before the wait times out
C17_Witness ==
  /\ resolveCall.status = "done"
  /\ resolveCall.inp.strict
  /\ resolveCall.inp.frameIndex = 1
  /\ resolveCall.inp.hasBackendId
  /\ resolveCall.inp.resolve1 = "missing"
  /\ resolveCall.out.waits = 1
  /\ resolveCall.out.evaluations = 0
  /\ resolveCall.out.result = "context-missing"

\* C18: whenever an action completes successfully on a page, that page's
\* snapshot cache has been marked dirty by the time control returns to the
\* caller, on every exit path (normal return, or an error raised by the settle
\* wait that follows the action), so that the next cached read is a miss.
C18_SuccessfulActionMarksDirty ==
  (actionCall.status = "done" /\ actionCall.output.success)
  => /\ dirty
     /\ CacheGetResult(TheCache, clock) = NoSnap

\* C19: every action request returns a result and never throws to its caller:
\* malformed ids, ids absent from the snapshot, unknown action types,
\* runtime-context initialization failures, resolution failures and dispatch
\* failures all yield success = false.  Stated of runAction.
C19_ActionRequestNeverThrows ==
  (actionCall.status = "done" /\ actionCall.caller = "runAgentTask")
  => /\ actionCall.returned
     /\ (\/ actionCall.req.request \in {"malformed", "absent"}
         \/ ~actionCall.env.known
         \/ (actionCall.req.request = "cdp" /\ ~actionCall.env.runtimeContext)
         \/ (actionCall.req.request = "cdp"
               /\ ResolveElement(actionCall.req.element).result # "ok")
         \/ ~actionCall.req.dispatch)
        => ~actionCall.output.success

\* C20 (as stated): an action request with a structural error (encodedId not
\* matching the pattern, frameIndex not present in the Frame Graph, or no
\* xpath recorded for the encodedId) is rejected with success = false without
\* dispatching anything and without a retry of resolution or dispatch.
\* Stated of the requests that reach performAction.
C20_StructuralErrorIsRejected ==
  (/\ actionCall.status = "done"
   /\ actionCall.performs = 1
   /\ \/ actionCall.req.request = "malformed"
      \/ (actionCall.req.request = "cdp" /\ ~actionCall.req.element.tracked)
      \/ (actionCall.req.request \in {"cdp", "playwright"}
            /\ ~actionCall.req.element.hasXPath))
  => /\ ~actionCall.output.success
     /\ actionCall.output.dispatches = 0
     /\ actionCall.output.resolutions <= 1

\* C20 (amended): an action request whose encodedId does not match the
\* pattern, whose frameIndex is not present in the Frame Graph (CDP path), or
\* whose element has no xpath recorded although the request needs it (XPath
\* recovery on the CDP path, the locator on the Playwright path) is rejected
\* with success = false without dispatching anything and without a retry of
\* resolution or dispatch.
C20_NeededStructureIsRequired ==
  (/\ actionCall.status = "done"
   /\ actionCall.performs = 1
   /\ \/ actionCall.req.request = "malformed"
      \/ (actionCall.req.request = "cdp" /\ ~actionCall.req.element.tracked)
      \/ (actionCall.req.request = "cdp" /\ ~actionCall.req.element.hasXPath
            /\ actionCall.output.recoveries >= 1)
      \/ (actionCall.req.request = "playwright" /\ ~actionCall.req.element.hasXPath))
  => /\ ~actionCall.output.success
     /\ actionCall.output.dispatches = 0
     /\ actionCall.output.resolutions <= 1

\* a CDP request for an element of an iframe the Frame Graph does not track
C20_Witness ==
  /\ actionCall.status = "done"
  /\ actionCall.performs = 1
  /\ actionCall.req.request = "cdp"
  /\ actionCall.req.element.frameIndex = 1
  /\ actionCall.req.element.frameInfoKnown
  /\ ~actionCall.req.element.tracked
  /\ ~actionCall.output.success
  /\ actionCall.output.resolutions = 1
  /\ actionCall.output.dispatches = 0

\* C24: handling Page.frameNavigated only updates the url of the navigated
\* frame's existing record: it creates no record (a frame without a record
\* stays absent), and it changes no frameIndex mapping, no session binding and
\* no other frame's record.
C24_NavigatedOnlyUpdatesExistingRecord ==
  [][\A f \in AllFrames :
       FrameNavigated(f) =>
         /\ HasFrame(graph', f) <=> HasFrame(graph, f)
         /\ graph'.frameIndexMap = graph.frameIndexMap
         /\ graph'.frameIdToIndex = graph.frameIdToIndex
         /\ sessions' = sessions
         /\ nextFrameIndex' = nextFrameIndex
         /\ \A h \in DOMAIN graph.frames \ {f} :
              HasFrame(graph', h) /\ graph'.frames[h] = graph.frames[h]
         /\ HasFrame(graph, f) =>
              graph'.frames[f] = [graph.frames[f] EXCEPT !.url = FrameUrl(f)]]_vars

\* C25: each Page.frameAttached event for a frame that has no record creates
\* exactly one record and gives it a preliminary frameIndex strictly greater
\* than every frameIndex assigned before it, so that it never reuses an index
\* held by another frame.
C25_AttachedIndexIsFresh ==
  [][\A f \in ChildFrames :
       (FrameAttached(f) /\ RootSession \in listening /\ ~HasFrame(graph, f)) =>
         /\ DOMAIN graph'.frames = DOMAIN graph.frames \cup {f}
         /\ graph'.frameIdToIndex[f] # NoIndex
         /\ graph'.frameIndexMap[graph'.frameIdToIndex[f]] = f
         /\ \A i \in Indices :
              (\/ graph.frameIndexMap[i] # NoFrame
               \/ \E h \in AllFrames : graph.frameIdToIndex[h] = i
               \/ i \in formerIndices)
              => graph'.frameIdToIndex[f] > i
         /\ \A h \in AllFrames \ {f} :
              graph'.frameIdToIndex[h] # graph'.frameIdToIndex[f]]_vars

\* a frame was attached and indexed after another frame had been given an
\* index
C25_Witness ==
  /\ lastEvent.type = "frameAttached"
  /\ ~lastEvent.known
  /\ graph.frameIdToIndex[lastEvent.frame] > 0
  /\ \E h \in AllFrames \ {lastEvent.frame} :
       /\ graph.frameIdToIndex[h] # NoIndex
       /\ graph.frameIdToIndex[h] < graph.frameIdToIndex[lastEvent.frame]


\* ----------------------------------------------------------------- C21 ----
\* C21 as stated: a call makes at most three attempts, an attempt after the
\* first begins only after the one before failed with a recoverable failure
\* (execution context destroyed or target closed), a settle wait lies
\* between consecutive attempts, and the call terminates.
C21_RetryOnlyAfterRecoverableFailure ==
  /\ [](/\ Len(domCapture.failures)
             + (IF domCapture.status \in {"attempt", "returned"} THEN 1 ELSE 0)
               <= DOM_CAPTURE_MAX_ATTEMPTS
        /\ domCapture.status = "attempt" =>
             /\ Len(domCapture.failures) = domCapture.attempt
             /\ domCapture.settles = domCapture.attempt
             /\ \A i \in 1..Len(domCapture.failures) :
                  IsRecoverableDomError(domCapture.failures[i]))
  /\ (domCapture.status = "attempt" ~> domCapture.status \in {"returned", "thrown"})

\* C21 amended: a call makes at most three attempts (never more than its
\* maxRetries), an attempt after the first begins only after the one before
\* failed - its capture pass ended in any error, recoverable or not - a
\* settle wait lies between consecutive attempts and after every failed one,
\* and the call terminates.
C21_RetryOnlyAfterFailedAttempt ==
  /\ [](/\ LET begun == Len(domCapture.failures)
                           + (IF domCapture.status \in {"attempt", "returned"} THEN 1 ELSE 0)
           IN begun <= DOM_CAPTURE_MAX_ATTEMPTS /\ begun <= domCapture.maxRetries
        /\ domCapture.status = "attempt" =>
             /\ Len(domCapture.failures) = domCapture.attempt
             /\ domCapture.settles = domCapture.attempt
             /\ \A i \in 1..Len(domCapture.failures) : domCapture.failures[i] # "ok"
        /\ domCapture.status \in {"returned", "thrown"} =>
             domCapture.settles = Len(domCapture.failures))
  /\ (domCapture.status = "attempt" ~> domCapture.status \in {"returned", "thrown"})

\* a third attempt is under way after a failure that is not recoverable
C21_Witness ==
  /\ domCapture.status = "attempt"
  /\ domCapture.attempt = 2
  /\ domCapture.settles = 2
  /\ domCapture.failures[2] = "other"

\* ----------------------------------------------------------------- C22 ----
\* C22: a capture that returns hands out a real snapshot, never the
\* placeholder and never nothing; one that throws has used up its retries;
\* and the snapshot cache never holds the placeholder.
C22_CaptureYieldsSnapshotOrThrows ==
  /\ domCapture.status = "returned" =>
       domCapture.snap \notin {NoSnap, PlaceholderSnapshot}
  /\ domCapture.status = "thrown" =>
       Len(domCapture.failures) = domCapture.maxRetries
  /\ cacheEntry.state # PlaceholderSnapshot

\* a cached capture returned a fresh snapshot after a pass that failed
C22_Witness ==
  /\ domCapture.status = "returned"
  /\ domCapture.useCache
  /\ Len(domCapture.failures) > 0
  /\ cacheEntry.state = domCapture.snap
  /\ domCapture.snap.id > 0

\* ----------------------------------------------------------------- C23 ----
\* C23: a frame attached to or detached from the page, or a navigation of
\* the page, while a snapshot is cached removes the cache entry and marks the
\* page dirty, so that the next cached read finds nothing.
C23_FrameEventInvalidatesCache ==
  [][\A kind \in {"frameattached", "framedetached", "framenavigated"} :
       (PageEvent(kind) /\ cacheEntry # NoEntry) =>
         /\ cacheEntry' = NoEntry
         /\ dirty'
         /\ CacheGetResult([entry |-> cacheEntry', versions |-> versions',
                            dirty |-> dirty'], clock') = NoSnap]_vars


\* ----------------------------------------------------------------- C26 ----
\* C26: until the client is disposed at most one pooled session per kind is
\* being created or is alive (neither failed nor detached), and two
\* acquireSession calls of one kind that returned different sessions are
\* separated by the Detached event of the earlier session: it had detached
\* before the call that returned the later one was made.
C26_OnePooledSessionPerKind ==
  /\ cdp.disposing = "no" =>
       \A kind \in {"dom", "lifecycle"} :
         Cardinality({p \in 1..Len(cdp.promises) :
                        /\ cdp.promises[p].kind = kind
                        /\ cdp.promises[p].state # "rejected"
                        /\ p \notin cdp.detached}) <= 1
  /\ \A i, j \in 1..Len(cdp.calls) :
       (/\ cdp.calls[i].kind = cdp.calls[j].kind
        /\ 0 < cdp.calls[i].result
        /\ cdp.calls[i].result < cdp.calls[j].result)
         => cdp.calls[i].result \in cdp.calls[j].after

\* two calls of one kind, the second made while the session was still being
\* created, returned the same session
C26_Witness ==
  /\ Len(cdp.calls) >= 2
  /\ cdp.calls[1].kind = cdp.calls[2].kind
  /\ cdp.calls[2].joined
  /\ cdp.calls[1].result > 0
  /\ cdp.calls[2].result = cdp.calls[1].result

\* ----------------------------------------------------------------- C27 ----
\* C27: the pool never holds the promise of a session whose Detached event
\* has been delivered, and no acquireSession call returns a session that had
\* detached before the call was made.
C27_DetachedSessionLeavesPool ==
  /\ \A kind \in {"dom", "lifecycle"} :
       cdp.pool[kind] # 0 => cdp.pool[kind] \notin cdp.detached
  /\ \A i \in 1..Len(cdp.calls) :
       cdp.calls[i].result > 0 => cdp.calls[i].result \notin cdp.calls[i].after

\* a call made after the Detached event of the pooled session of its kind
\* returned another session
C27_Witness ==
  \E i \in 1..Len(cdp.calls) :
    /\ cdp.calls[i].result > 0
    /\ \E s \in cdp.calls[i].after :
         /\ s > 0
         /\ cdp.promises[s].kind = cdp.calls[i].kind
         /\ s # cdp.calls[i].result

\* ----------------------------------------------------------------- C28 ----
\* C28: when the disposal that the page's close started has returned, a
\* detach was attempted on every session the client tracked, failing
\* detaches or not, no error reached the caller, and the client tracks no
\* session.
C28_CloseDetachesEveryTrackedSession ==
  (cdp.disposing = "done" /\ cdp.pageClosed) =>
    /\ cdp.attempted = cdp.detaching
    /\ ~cdp.disposeError
    /\ cdp.tracked = {}

\* a page closed with the root session and a pooled session tracked, and
\* the detach of one of them failed
C28_Witness ==
  /\ cdp.disposing = "done"
  /\ cdp.pageClosed
  /\ Cardinality(cdp.attempted) >= 2
  /\ cdp.attempted \ cdp.detached # {}
  /\ cdp.attempted \cap cdp.detached # {}

\* ----------------------------------------------------------------- C29 ----
\* C29: once disposeCDPClientForPage has returned, the client cache has no
\* entry for the page and the manager registry has no entry for the client
\* that was disposed.
C29_CloseDeletesBothEntries ==
  cdp.disposing = "done" =>
    /\ cdp.client = 0
    /\ cdp.clients \notin cdp.managers


C31_OnlyClosedSetIsDispatched ==
  actionCall.status = "done" =>
    /\ actionCall.req.method \notin AGENT_ELEMENT_ACTIONS =>
         /\ ~actionCall.returned
         /\ actionCall.performs = 0
         /\ actionCall.output.resolutions = 0
         /\ actionCall.output.dispatches = 0
    /\ actionCall.output.dispatches > 0 =>
         actionCall.req.method \in
           {"click", "fill", "type", "press", "selectOptionFromDropdown", "check",
            "uncheck", "hover", "scrollToElement", "scrollToPercentage",
            "nextChunk", "prevChunk"}

\* executeSingleAction was given an element whose method is outside the set
\* and threw before performAction, although the element would have resolved
C31_Witness ==
  /\ actionCall.status = "done"
  /\ actionCall.caller = "executeSingleAction"
  /\ actionCall.req.method = "evaluate"
  /\ actionCall.req.request = "cdp"
  /\ actionCall.env.known /\ actionCall.env.runtimeContext
  /\ ~actionCall.returned
  /\ actionCall.performs = 0

\* ----------------------------------------------------------------- C32 ----
\* C32: an id that isEncodedId accepts, parsed with parseEncodedId and
\* formatted again with createEncodedId, is the id itself.
C32_ParseThenFormatIsIdentity ==
  (roundTrip.status = "done" /\ roundTrip.accepted) =>
    roundTrip.formatted = roundTrip.id

\* ----------------------------------------------------------------- C33 ----
\* C33: in the snapshot a capture returns after its sync pass, every frame
\* index i > 0 of the snapshot's elements belongs to a frame the sync pass
\* identified: frameMap[i] carries a frameId, or the Frame Graph has a record
\* whose backendNodeId is the <iframe> element of frameMap[i].
C33_ElementsOnlyOfMatchedFrames ==
  (capturePc = "idle" /\ lastEvent.type = "sync") =>
    \A i \in SnapshotFrameIndices \ {0} :
      \/ frameMap[i].frameId # NoFrame
      \/ /\ frameMap[i].iframeBackendNodeId # NoNode
         /\ GetFrameByBackendNodeId(graph, frameMap[i].iframeBackendNodeId) # NoFrame

\* ----------------------------------------------------------------- C34 ----
\* C34: while the task's status is CANCELLED no step of the loop begins a
\* captureDOMState call and none begins a runAction call.
C34_CancelledTaskStartsNoWork ==
  [][task.status = "cancelled" =>
       /\ ~(task.pc # "capture" /\ task'.pc = "capture")
       /\ ~(task.pc # "action" /\ task'.pc = "action")]_vars

\* ----------------------------------------------------------------- C35 ----
\* C35: after a Runtime.executionContextDestroyed was handled, every frame
\* whose stored context id was another id than the destroyed one still has
\* that id stored (destroying an older context of a frame does not erase the
\* id of the newer one).
C35_DestroyedOlderKeepsNewer ==
  lastEvent.type = "contextDestroyed" =>
    \A f \in AllFrames :
      (lastEvent.before[f] # NoCtx /\ lastEvent.before[f] # lastEvent.ctx) =>
        frameExecutionContexts[f] = lastEvent.before[f]

\* ----------------------------------------------------------------- C36 ----
\* C36: when ensureInitialized() has completed, the Frame Graph has a record
\* of every child frame attached to the page and of no other child frame,
\* whatever was attached or detached while the initialization ran.
C36_InitializationLosesNoFrameEvent ==
  (initialized /\ lastEvent.type = "initialized") =>
    \A f \in ChildFrames : HasFrame(graph, f) <=> f \in attached

\* ----------------------------------------------------------------- C37 ----
\* C37: once the disposal of the page's client has returned and every
\* pooled-session creation has settled, no client is cached for the page, no
\* session is tracked, and every session that was created for the client has
\* detached or was detached by the disposal.
C37_NothingSurvivesDisposal ==
  (/\ cdp.disposing = "done"
   /\ \A p \in 1..Len(cdp.promises) : cdp.promises[p].state \in {"resolved", "rejected"})
    => /\ cdp.client = 0
       /\ cdp.tracked = {}
       /\ \A p \in 1..Len(cdp.promises) :
            cdp.promises[p].state = "resolved" => p \in cdp.attempted \cup cdp.detached

\* ----------------------------------------------------------------- C38 ----
\* C38: no getCDPClientForPage call returns a promise that had already
\* rejected: after a failed initialization a later call starts a new one.
C38_FailedInitIsNotRemembered ==
  \A i \in 1..Len(pendingClients.calls) : pendingClients.calls[i] # "earlier-failure"

\* ----------------------------------------------------------------- C39 ----
\* C39: a status of COMPLETED, FAILED or CANCELLED is final: no step of the
\* loop, of the task control or of closeAgent changes it.
C39_EndStatusIsFinal ==
  [][task.status \in {"completed", "failed", "cancelled"} =>
       task'.status = task.status]_vars

\* ----------------------------------------------------------------- C40 ----
\* C40: whatever the order in which the chunks of an attempt arrive, each
\* under its own order number, the aggregated text is made of the chunks
\* numbered 0, 1, ... up to the first number that has not arrived, in that
\* order and nothing else: each part is the (trimmed) text of the chunk of
\* its number, the text is these parts joined, the chunks after a missing
\* number are held back, and once all of 0..n-1 arrived all n are in it.
C40_ChunksJoinedInOrderNumber ==
  LET agg == aggregator
      arrived == {agg.pushed[i].order : i \in 1..Len(agg.pushed)}
      textOf(o) == (CHOOSE i \in 1..Len(agg.pushed) : agg.pushed[i].order = o)
      firstMissing == CHOOSE k \in 0..MaxChunks :
                        /\ k \notin arrived
                        /\ \A o \in 0..(k - 1) : o \in arrived
      inOrder == [i \in 1..firstMissing |-> Trim(agg.pushed[textOf(i - 1)].simplified)]
  IN /\ agg.emitted = [i \in 1..firstMissing |-> i - 1]
     /\ agg.parts = inOrder
     /\ JoinParts(agg.parts) = JoinParts(inOrder)
     /\ \A o \in arrived : o > firstMissing => \A i \in 1..Len(agg.emitted) : agg.emitted[i] # o
     /\ {c.order : c \in agg.pending} = {o \in arrived : o > firstMissing}

\* chunks 2, 0 and 1 arrived in this order, chunk 2 held back until 1 came:
\* the text is the three of them by number, trimmed, with empty lines between
C40_Witness ==
  /\ Len(aggregator.pushed) = 3
  /\ aggregator.pushed[1].order = 2
  /\ aggregator.pushed[2].order = 0
  /\ aggregator.pushed[3].order = 1
  /\ aggregator.pushed[1].simplified = <<"c", "\n">>
  /\ aggregator.pushed[2].simplified = <<" ", "b">>
  /\ aggregator.pushed[3].simplified = <<"a">>
  /\ aggregator.emitted = <<0, 1, 2>>
  /\ JoinParts(aggregator.parts) = <<"b", "\n", "\n", "a", "\n", "\n", "c">>

====
